---- MODULE Spec2Model ----
(***************************************************************************)
(* A model of timeit_compare 1.3.0 (src/timeit_compare/__init__.py): the   *)
(* Compare object (timers, statistic registry, run, get_result,            *)
(* print_results) and the convenience function compare().                  *)
(*                                                                         *)
(* Time is counted in ticks of 0.05 s, so that the calibration threshold   *)
(* 0.2 s is 4 ticks and the growth constant 0.25 s is 5 ticks.  A duration *)
(* (elapsed / number) is an exact fraction <<p, q>> in lowest terms.       *)
(* Strings that the code inspects (statistic names) are sequences of       *)
(* one-character strings.                                                  *)
(***************************************************************************)
EXTENDS Integers, Sequences, FiniteSets, TLC

\* ------------------------------------------------------------------ bounds

\* Timers that may be registered over the life of one Compare object.
MaxTimers == 2
\* Calls of _Timer.timeit (calibration and timed calls together) that are
\* explored over the life of one Compare object.
MaxCalls == 4

\* the largest increase of a timer's cost per call that is compared, in ticks
MaxRaise == 3

\* ------------------------------------------------------- program constants

\* if t > 0.2  (in ticks of 0.05 s)
Threshold == 4
\* n = int(n * 0.25 / t) + 1  (0.25 s in ticks of 0.05 s)
Growth == 5
\* precision is clamped to 1..8
MinPrecision == 1
MaxPrecision == 8

\* ------------------------------------------------------------------ inputs

\* elapsed time of one timeit call, in ticks
ElapsedInputs == {0, 1, 8}
\* repeat as passed by the caller (0 is clamped to 1)
RepeatInputs == {0, 1, 2}
\* number as passed by the caller (<= 0: estimate)
NumberInputs == {-1, 0, 2}
\* time budget as passed by the caller, in ticks (20 ticks = 1.0 s)
TimeInputs == {-20, 20}

\* ----------------------------------------------------------------- strings

LowerLetters == {"a", "d", "e", "f", "i", "m", "n", "p", "s", "t", "x"}
UpperLetters == {"F", "I", "X"}

\* str.lower, character by character
LowerChar(c) ==
  CASE c = "F" -> "f"
    [] c = "I" -> "i"
    [] c = "X" -> "x"
    [] OTHER -> c

StrLower(s) == [i \in DOMAIN s |-> LowerChar(s[i])]

\* str.isidentifier: non-empty, a letter or underscore first, then letters,
\* digits or underscores
IsIdentifier(s) ==
  /\ Len(s) > 0
  /\ s[1] \in LowerLetters \cup UpperLetters \cup {"_"}
  /\ \A i \in DOMAIN s : s[i] \in LowerLetters \cup UpperLetters \cup {"_", "1"}

\* keyword.iskeyword: membership in keyword.kwlist (the entries that can be
\* spelled with the letters above); the test is case sensitive
Keywords == { <<"i", "f">>, <<"i", "n">>, <<"i", "s">>, <<"a", "s">>,
              <<"d", "e", "f">> }

IsKeyword(s) == s \in Keywords

\* mutant: the test is left out
StartsWithUnderscore_Never(s) == FALSE

\* str.startswith('_')
StartsWithUnderscore(s) == Len(s) > 0 /\ s[1] = "_"

S_mean == <<"m", "e", "a", "n">>
S_median == <<"m", "e", "d", "i", "a", "n">>
S_min == <<"m", "i", "n">>
S_max == <<"m", "a", "x">>
S_std == <<"s", "t", "d">>

\* --------------------------------------------------------------- fractions

None == [kind |-> "None"]

RECURSIVE Gcd(_, _)
Gcd(a, b) == IF b = 0 THEN a ELSE Gcd(b, a % b)

Abs(a) == IF a < 0 THEN -a ELSE a

\* the fraction p / q (q > 0) in lowest terms
Frac(p, q) ==
  LET g == Gcd(Abs(p), q)
  IN  IF p = 0 THEN <<0, 1>> ELSE <<p \div g, q \div g>>

\* float('inf') and float('-inf'): FLess orders them above and below every
\* fraction
Inf == <<1, 0>>
NegInf == <<-1, 0>>

FAdd(a, b) == Frac(a[1] * b[2] + b[1] * a[2], a[2] * b[2])
FSub(a, b) == Frac(a[1] * b[2] - b[1] * a[2], a[2] * b[2])
FMul(a, b) == Frac(a[1] * b[1], a[2] * b[2])
FDivInt(a, k) == Frac(a[1], a[2] * k)
FLess(a, b) == a[1] * b[2] < b[1] * a[2]

RECURSIVE FSum(_)
FSum(s) == IF s = <<>> THEN <<0, 1>> ELSE FAdd(Head(s), FSum(Tail(s)))

\* round(p / q) as Python 3 rounds a float: to the nearest integer, a tie to
\* the even one  (p >= 0, q > 0)
RoundHalfEven(p, q) ==
  LET f == p \div q
      r == 2 * (p % q)
  IN  IF r < q THEN f
      ELSE IF r > q THEN f + 1
      ELSE IF f % 2 = 0 THEN f ELSE f + 1

Max2(a, b) == IF a >= b THEN a ELSE b

\* -------------------------------------------------------------- statistics

RECURSIVE InsertSorted(_, _)
InsertSorted(x, s) ==
  IF s = <<>> THEN <<x>>
  ELSE IF FLess(x, Head(s)) THEN <<x>> \o s
  ELSE <<Head(s)>> \o InsertSorted(x, Tail(s))

RECURSIVE Sorted(_)
Sorted(s) == IF s = <<>> THEN <<>> ELSE InsertSorted(Head(s), Sorted(Tail(s)))

Num(v) == [kind |-> "num", v |-> v, sqrt |-> FALSE]
Sqrt(v) == [kind |-> "num", v |-> v, sqrt |-> TRUE]
Raised == [kind |-> "raised"]
Str == [kind |-> "str"]

\* statistics.fmean / statistics.mean: StatisticsError on no data
Fmean(time) ==
  IF time = <<>> THEN Raised ELSE Num(FDivInt(FSum(time), Len(time)))

\* statistics.median
Median(time) ==
  LET n == Len(time)
      s == Sorted(time)
  IN  IF n = 0 THEN Raised
      ELSE IF n % 2 = 1 THEN Num(s[n \div 2 + 1])
      ELSE Num(FDivInt(FAdd(s[n \div 2], s[n \div 2 + 1]), 2))

\* min / max: ValueError on an empty sequence
Min(time) == IF time = <<>> THEN Raised ELSE Num(Sorted(time)[1])
Max(time) == IF time = <<>> THEN Raised ELSE Num(Sorted(time)[Len(time)])

\* statistics.stdev: the square root of the sample variance; StatisticsError
\* on fewer than two data points
Stdev(time) ==
  LET n == Len(time)
      m == FDivInt(FSum(time), n)
      sq == [i \in DOMAIN time |-> FMul(FSub(time[i], m), FSub(time[i], m))]
  IN  IF n < 2 THEN Raised ELSE Sqrt(FDivInt(FSum(sq), n - 1))

\* The functions a statistic can be registered with: the five built-in ones
\* and five user functions (one returns len(time), one raises, one returns
\* a string, one returns -sum(time), one returns float('inf')).
BuiltinFuncs == {"fmean", "median", "min", "max", "stdev"}
UserFuncs == {"len", "raises", "nonnum", "negsum", "inf"}
\* the value given as func that is not callable
NotCallable == "notcallable"

FuncCall(func, time) ==
  CASE func = "fmean" -> Fmean(time)
    [] func = "median" -> Median(time)
    [] func = "min" -> Min(time)
    [] func = "max" -> Max(time)
    [] func = "stdev" -> Stdev(time)
    [] func = "len" -> Num(<<Len(time), 1>>)
    [] func = "raises" -> Raised
    [] func = "negsum" -> Num(FSub(<<0, 1>>, FSum(time)))
    [] func = "inf" -> Num(Inf)
    [] OTHER -> Str

_DEFAULT_STATS ==
  << [name |-> S_mean, func |-> "fmean"],
     [name |-> S_median, func |-> "median"],
     [name |-> S_min, func |-> "min"],
     [name |-> S_max, func |-> "max"],
     [name |-> S_std, func |-> "stdev"] >>

\* mutant: no try / except and no isinstance test
_stat_call_Unguarded(func, time) == FuncCall(func, time)

\* _stat_call: the value when func returns a float or an int, otherwise None
_stat_call(func, time) ==
  LET value == FuncCall(func, time)
  IN  IF value.kind = "num" THEN value ELSE None

\* ---------------------------------------------------------------- registry

RegNames(reg) == {reg[i].name : i \in DOMAIN reg}

RegFunc(reg, name) ==
  reg[CHOOSE i \in DOMAIN reg : reg[i].name = name].func

\* self._stats[stat] = func: an existing key keeps its place
RegSet(reg, name, func) ==
  IF name \in RegNames(reg)
  THEN [i \in DOMAIN reg |->
          IF reg[i].name = name THEN [name |-> name, func |-> func] ELSE reg[i]]
  ELSE Append(reg, [name |-> name, func |-> func])

\* del self._stats[stat]
RegDel(reg, name) == SelectSeq(reg, LAMBDA e : e.name # name)

RegFields(reg) == [i \in DOMAIN reg |-> reg[i].name]

RECURSIVE SetToSeq(_)
SetToSeq(S) ==
  IF S = {} THEN <<>>
  ELSE LET m == CHOOSE x \in S : \A y \in S : x <= y
       IN  <<m>> \o SetToSeq(S \ {m})

\* ------------------------------------------------------------------- state

VARIABLES
  timer,             \* Compare._timer: id -> the _Timer's fields
  timer_id,          \* Compare._timer_id: the next value of itertools.count()
  stats,             \* Compare._stats: the ordered registry name -> func
  number,            \* Compare._number
  stats_namedtuple,  \* Compare._stats_namedtuple
  catch_interrupt,   \* the attribute Compare._catch_interrupt, or "absent"
  run,               \* the frame of Compare.run while it executes
  cmp,               \* the frame of compare() while it executes
  ncalls,            \* calls of _Timer.timeit made so far
  out,               \* what the current (or last) call has printed
  ret                \* the last call that ended: its name and outcome

vars == <<timer, timer_id, stats, number, stats_namedtuple, catch_interrupt,
          run, cmp, ncalls, out, ret>>

Idle == [pc |-> "idle"]
NoCompare == [pc |-> "none"]

\* mutant: the timers from the last registered to the first
Order_Reversed ==
  LET q == SetToSeq(DOMAIN timer)
  IN  [p \in 1 .. Len(q) |-> q[Len(q) + 1 - p]]

\* the registered timers in the order of the OrderedDict (insertion order,
\* which is the order of the ids)
Order == SetToSeq(DOMAIN timer)

Returned(op) == [op |-> op, exc |-> "none"]
Raise(op, exc) == [op |-> op, exc |-> exc]

Init ==
  /\ timer = << >>
  /\ timer_id = 0
  /\ stats = _DEFAULT_STATS
  /\ number = 0
  /\ stats_namedtuple = None
  /\ catch_interrupt = "absent"
  /\ run = Idle
  /\ cmp = NoCompare
  /\ ncalls = 0
  /\ out = << >>
  /\ ret = Returned("__init__")

\* a direct call of a method of Compare can start
Direct == cmp.pc = "none" /\ run.pc = "idle"

\* ------------------------------------------------------------------ timers

\* _Timer.__init__
NewTimer ==
  [time |-> << >>, total_time |-> 0, stats |-> << >>, result |-> None,
   results |-> "absent"]

\* mutant: the value of a statistic the timer already has is kept
TimerAddStat_KeepsOld(t, stat, func) ==
  [t EXCEPT
     !.stats = [s \in DOMAIN t.stats \cup {stat} |->
                  IF s \in DOMAIN t.stats THEN t.stats[s]
                  ELSE _stat_call(func, t.time)],
     !.result = None]

\* _Timer.add_stat
TimerAddStat(t, stat, func) ==
  [t EXCEPT
     !.stats = [s \in DOMAIN t.stats \cup {stat} |->
                  IF s = stat THEN _stat_call(func, t.time) ELSE t.stats[s]],
     !.result = None]

\* _Timer.del_stat
TimerDelStat(t, stat) ==
  [t EXCEPT
     !.stats = [s \in DOMAIN t.stats \ {stat} |-> t.stats[s]],
     !.result = None]

RECURSIVE TimerAddStats(_, _)
TimerAddStats(t, reg) ==
  IF reg = << >> THEN t
  ELSE TimerAddStats(TimerAddStat(t, Head(reg).name, Head(reg).func), Tail(reg))

\* mutant: the next id is the number of registered timers
DoAddTimer_CountsTimers ==
  /\ timer' = [i \in DOMAIN timer \cup {timer_id} |->
                 IF i = timer_id THEN TimerAddStats(NewTimer, stats)
                 ELSE timer[i]]
  /\ timer_id' = Cardinality(DOMAIN timer')

\* the body of Compare.add_timer
DoAddTimer ==
  /\ timer' = [i \in DOMAIN timer \cup {timer_id} |->
                 IF i = timer_id THEN TimerAddStats(NewTimer, stats)
                 ELSE timer[i]]
  /\ timer_id' = timer_id + 1

add_timer ==
  /\ Direct
  /\ timer_id < MaxTimers
  /\ DoAddTimer
  /\ out' = << >>
  /\ ret' = [op |-> "add_timer", exc |-> "none", val |-> timer_id]
  /\ UNCHANGED <<stats, number, stats_namedtuple, catch_interrupt, run, cmp,
                 ncalls>>

\* Compare.del_timer: del self._timer[id]
del_timer(id) ==
  /\ Direct
  /\ out' = << >>
  /\ IF id \in DOMAIN timer
     THEN /\ timer' = [i \in DOMAIN timer \ {id} |-> timer[i]]
          /\ ret' = Returned("del_timer")
     ELSE /\ timer' = timer
          /\ ret' = Raise("del_timer", "KeyError")
  /\ UNCHANGED <<timer_id, stats, number, stats_namedtuple, catch_interrupt,
                 run, cmp, ncalls>>

\* -------------------------------------------------------------- statistics

\* An argument given as a statistic name: a string, or a value of another
\* type.
StrArg(s) == [type |-> "str", val |-> s]
IntArg == [type |-> "int", val |-> << >>]

\* Compare._check_stat: the error raised, or the name in lower case
_check_stat(stat) ==
  IF stat.type # "str" THEN [exc |-> "TypeError", val |-> << >>]
  ELSE IF ~IsIdentifier(stat.val) THEN [exc |-> "ValueError", val |-> << >>]
  ELSE IF IsKeyword(stat.val) THEN [exc |-> "ValueError", val |-> << >>]
  ELSE IF StartsWithUnderscore(stat.val)
       THEN [exc |-> "ValueError", val |-> << >>]
  ELSE [exc |-> "none", val |-> StrLower(stat.val)]

\* Compare._check_stat_select
_check_stat_select(stat) ==
  LET c == _check_stat(stat)
  IN  IF c.exc # "none" THEN c
      ELSE IF c.val \notin RegNames(stats)
           THEN [exc |-> "ValueError", val |-> << >>]
      ELSE c

\* the body of Compare.add_stat; exc is the error it ends with
DoAddStat(stat, func, exc) ==
  LET c == _check_stat(stat)
  IN  IF c.exc # "none"
      THEN /\ exc = c.exc
           /\ UNCHANGED <<stats, stats_namedtuple, timer>>
      ELSE IF func = NotCallable
      THEN /\ exc = "TypeError"
           /\ UNCHANGED <<stats, stats_namedtuple, timer>>
      ELSE /\ exc = "none"
           /\ stats' = RegSet(stats, c.val, func)
           /\ stats_namedtuple' = None
           /\ timer' = [i \in DOMAIN timer |->
                          TimerAddStat(timer[i], c.val, func)]

add_stat(stat, func) ==
  /\ Direct
  /\ \E exc \in {"none", "TypeError", "ValueError"} :
       /\ DoAddStat(stat, func, exc)
       /\ ret' = [op |-> "add_stat", exc |-> exc, stat |-> stat, func |-> func]
  /\ out' = << >>
  /\ UNCHANGED <<timer_id, number, catch_interrupt, run, cmp, ncalls>>

\* Compare.del_stat
del_stat(stat) ==
  LET c == _check_stat_select(stat)
  IN  /\ Direct
      /\ out' = << >>
      /\ ret' = [op |-> "del_stat", exc |-> c.exc, stat |-> stat]
      /\ IF c.exc # "none"
         THEN UNCHANGED <<stats, stats_namedtuple, timer>>
         ELSE /\ stats' = RegDel(stats, c.val)
              /\ stats_namedtuple' = None
              /\ timer' = [i \in DOMAIN timer |-> TimerDelStat(timer[i], c.val)]
      /\ UNCHANGED <<timer_id, number, catch_interrupt, run, cmp, ncalls>>

\* ------------------------------------------------------------- get_result

\* collections.namedtuple('Stats', fields): ValueError unless every field
\* name is an identifier, no keyword, and does not start with an underscore
NamedtupleOk(fields) ==
  \A i \in DOMAIN fields :
    /\ IsIdentifier(fields[i])
    /\ ~IsKeyword(fields[i])
    /\ ~StartsWithUnderscore(fields[i])

Namedtuple(fields) == [kind |-> "namedtuple", fields |-> fields]

\* _Timer.get_result, when no result is cached: the TimerResult built from
\* the timer's fields; stats_namedtuple(**self.stats) takes the values by
\* field name
TimerResult(id, t, num, nt) ==
  [kind |-> "TimerResult",
   id |-> id,
   repeat |-> Len(t.time),
   stats |-> [fields |-> nt.fields,
              values |-> [i \in DOMAIN nt.fields |-> t.stats[nt.fields[i]]]],
   time |-> t.time,
   number |-> num]

\* the body of Compare.get_result, for the public method op that was called
\* with the statistic stat (None for get_result itself)
DoGetResult(op, stat, id) ==
  IF stats_namedtuple = None /\ ~NamedtupleOk(RegFields(stats))
  THEN /\ ret' = [op |-> op, exc |-> "ValueError", stat |-> stat]
       /\ UNCHANGED <<timer, stats_namedtuple>>
  ELSE LET nt == IF stats_namedtuple = None
                 THEN Namedtuple(RegFields(stats)) ELSE stats_namedtuple
       IN  /\ stats_namedtuple' = nt
           /\ IF id \notin DOMAIN timer
              THEN /\ ret' = [op |-> op, exc |-> "KeyError", stat |-> stat]
                   /\ timer' = timer
              ELSE IF timer[id].result # None
              THEN /\ ret' = [op |-> op, exc |-> "none", stat |-> stat,
                              id |-> id, val |-> timer[id].result]
                   /\ timer' = timer
              ELSE IF {nt.fields[i] : i \in DOMAIN nt.fields}
                        # DOMAIN timer[id].stats
              THEN /\ ret' = [op |-> op, exc |-> "TypeError", stat |-> stat]
                   /\ timer' = timer
              ELSE LET r == TimerResult(id, timer[id], number, nt)
                   IN  /\ timer' = [timer EXCEPT ![id].result = r]
                       /\ ret' = [op |-> op, exc |-> "none", stat |-> stat,
                                  id |-> id, val |-> r]

\* Compare.get_result
get_result(id) ==
  /\ Direct
  /\ out' = << >>
  /\ DoGetResult("get_result", None, id)
  /\ UNCHANGED <<timer_id, stats, number, catch_interrupt, run, cmp, ncalls>>

\* min_id / max_id is None
NoId == -1

\* the loop of get_min: min_id after the timers ids, from (min_id, min_value)
RECURSIVE MinId(_, _, _, _)
MinId(ids, stat, min_id, min_value) ==
  IF ids = << >> THEN min_id
  ELSE LET value == timer[Head(ids)].stats[stat]
       IN  IF value # None /\ FLess(value.v, min_value)
           THEN MinId(Tail(ids), stat, Head(ids), value.v)
           ELSE MinId(Tail(ids), stat, min_id, min_value)

\* the loop of get_max
RECURSIVE MaxId(_, _, _, _)
MaxId(ids, stat, max_id, max_value) ==
  IF ids = << >> THEN max_id
  ELSE LET value == timer[Head(ids)].stats[stat]
       IN  IF value # None /\ FLess(max_value, value.v)
           THEN MaxId(Tail(ids), stat, Head(ids), value.v)
           ELSE MaxId(Tail(ids), stat, max_id, max_value)

\* the result of the timer id found by get_min / get_max, or None
DoGetExtreme(op, stat, c, id) ==
  IF c.exc # "none"
  THEN /\ ret' = [op |-> op, exc |-> c.exc, stat |-> stat]
       /\ UNCHANGED <<timer, stats_namedtuple>>
  ELSE IF id = NoId
  THEN /\ ret' = [op |-> op, exc |-> "none", stat |-> stat, id |-> NoId,
                  val |-> None]
       /\ UNCHANGED <<timer, stats_namedtuple>>
  ELSE DoGetResult(op, stat, id)

\* Compare.get_min
get_min(stat) ==
  LET c == _check_stat_select(stat)
  IN  /\ Direct
      /\ out' = << >>
      /\ DoGetExtreme("get_min", stat, c,
                      IF c.exc # "none" THEN NoId
                      ELSE MinId(Order, c.val, NoId, Inf))
      /\ UNCHANGED <<timer_id, stats, number, catch_interrupt, run, cmp,
                     ncalls>>

\* Compare.get_max
get_max(stat) ==
  LET c == _check_stat_select(stat)
  IN  /\ Direct
      /\ out' = << >>
      /\ DoGetExtreme("get_max", stat, c,
                      IF c.exc # "none" THEN NoId
                      ELSE MaxId(Order, c.val, NoId, NegInf))
      /\ UNCHANGED <<timer_id, stats, number, catch_interrupt, run, cmp,
                     ncalls>>

\* --------------------------------------------------------------------- run

\* the outcome of one call of _Timer.timeit: the elapsed ticks, an exception
\* of the statement or the setup (re-raised by _Timer.timeit), or a
\* KeyboardInterrupt arriving during the call
TimeitOutcomes ==
  {[kind |-> "elapsed", e |-> e] : e \in ElapsedInputs}
    \cup {[kind |-> "Exception", e |-> 0], [kind |-> "KeyboardInterrupt", e |-> 0]}

\* if repeat < 1: repeat = 1
ClampRepeat(repeat) == IF repeat < 1 THEN 1 ELSE repeat

\* if time < 0.0: time = 0.0
ClampTime(time) == IF time < 0 THEN 0 ELSE time

\* mutant: only number == 0 is estimated
NeedsEstimate_ZeroOnly(num) == num = 0

\* if number <= 0: the iteration count is estimated
NeedsEstimate(num) == num <= 0

\* mutant: the attribute is never seen
HasCatchInterrupt_Never == FALSE

\* catch_interrupt = hasattr(self, '_catch_interrupt')
HasCatchInterrupt == catch_interrupt # "absent"

\* mutants: no handler, and a handler that takes every exception
Handles_Nothing(kind) == FALSE
Handles_Everything(kind) == TRUE

\* except KeyboardInterrupt: the exceptions the handler of run takes
Handles(kind) == kind = "KeyboardInterrupt"

\* mutant: elapsed time and count change places
EstimateNumber_Inverted(n, time, t, repeat) ==
  Max2(RoundHalfEven(t * time, n * repeat), 1)

\* number = max(round(n * time / t / repeat), 1)
EstimateNumber(n, time, t, repeat) ==
  Max2(RoundHalfEven(n * time, t * repeat), 1)

\* mutant: n is left as it is
GrowN_Same(n, t) == n

\* mutant: n is set back to 1
GrowN_Reset(n, t) == 1

\* n = int(n * 0.25 / t) + 1 if t else n * 2
GrowN(n, t) == IF t # 0 THEN (n * Growth) \div t + 1 ELSE n * 2

\* mutant: range(repeat - 1)
TrialsDone_OffByOne(trial, repeat) == trial >= repeat - 1

\* for _ in range(repeat): the loop has run all its trials
TrialsDone(trial, repeat) == trial >= repeat

ProgressEvent(i, task_num) == [ev |-> "progress", i |-> i, of |-> task_num]

\* mutant: for i in range(task_num)
NextProgress_Short(show, pi, task_num, o) ==
  IF ~show THEN [exc |-> "none", out |-> o, pi |-> pi]
  ELSE IF pi >= task_num THEN [exc |-> "StopIteration", out |-> o, pi |-> pi]
  ELSE [exc |-> "none", out |-> Append(o, ProgressEvent(pi, task_num)),
        pi |-> pi + 1]

\* next(progress): _run_progress prints the i-th update and yields, for i in
\* range(task_num + 1); itertools.repeat(None) when show_progress is off
NextProgress(show, pi, task_num, o) ==
  IF ~show THEN [exc |-> "none", out |-> o, pi |-> pi]
  ELSE IF pi > task_num THEN [exc |-> "StopIteration", out |-> o, pi |-> pi]
  ELSE [exc |-> "none", out |-> Append(o, ProgressEvent(pi, task_num)),
        pi |-> pi + 1]

\* the last call of the frame that is active ends by raising exc: run, or
\* compare() when run was called by it
RaiseOut(op, exc) ==
  IF cmp.pc = "none"
  THEN /\ ret' = Raise(op, exc)
       /\ cmp' = cmp
  ELSE /\ ret' = Raise("compare", exc)
       /\ cmp' = [cmp EXCEPT !.pc = "raised"]

\* the start of Compare.run up to the try statement; when number > 0 also
\* the creation of the progress generator and its first next().  The frame
\* keeps the arguments as they were passed (args) beside the local variables
\* that the code overwrites.
DoRunStart(repeat, num, time, show, badtype) ==
  IF badtype # "none"
  THEN /\ RaiseOut("run", "TypeError")
       /\ run' = run
       /\ out' = << >>
  ELSE IF DOMAIN timer = {}
  THEN /\ run' = Idle
       /\ out' = << >>
       /\ IF cmp.pc = "none"
          THEN /\ ret' = Returned("run") /\ cmp' = cmp
          ELSE /\ ret' = ret /\ cmp' = [cmp EXCEPT !.pc = "print"]
  ELSE LET o1 == IF show THEN << [ev |-> "timing"] >> ELSE << >>
           task_num == Cardinality(DOMAIN timer) * ClampRepeat(repeat)
           p == IF NeedsEstimate(num)
                THEN [exc |-> "none", out |-> o1, pi |-> 0]
                ELSE NextProgress(show, 0, task_num, o1)
       IN  /\ run' = [pc |-> IF NeedsEstimate(num) THEN "estimate" ELSE "measure",
                      args |-> [repeat |-> repeat, number |-> num,
                                time |-> time],
                      repeat |-> ClampRepeat(repeat),
                      number |-> num,
                      time |-> ClampTime(time),
                      show |-> show,
                      new |-> [i \in DOMAIN timer |->
                                 [time |-> << >>, total_time |-> 0]],
                      n |-> 1, t |-> 0, k |-> 1, trial |-> 0,
                      pi |-> p.pi,
                      catch |-> HasCatchInterrupt]
           /\ out' = p.out
           /\ IF cmp.pc = "none"
              THEN /\ ret' = [op |-> "run", exc |-> "running"] /\ cmp' = cmp
              ELSE /\ ret' = ret /\ cmp' = [cmp EXCEPT !.pc = "run"]

RunBadTypes == {"none", "repeat", "number", "time"}

run_start(repeat, num, time, show, badtype) ==
  /\ Direct
  /\ ncalls' = ncalls
  /\ DoRunStart(repeat, num, time, show, badtype)
  /\ UNCHANGED <<timer, timer_id, stats, number, stats_namedtuple,
                 catch_interrupt>>

\* an exception leaves the try statement of run: a KeyboardInterrupt is
\* stored when the instance has the attribute _catch_interrupt, everything
\* else leaves run
RunExcept(kind) ==
  IF Handles(kind) /\ run.catch
  THEN /\ catch_interrupt' = kind
       /\ run' = [run EXCEPT !.pc = "finish"]
       /\ UNCHANGED <<ret, cmp, out>>
  ELSE /\ catch_interrupt' = catch_interrupt
       /\ run' = Idle
       /\ RaiseOut("run", kind)
       /\ out' = out

\* one call timer.timeit(n) of a calibration pass and, after the last timer
\* of the pass, the test of the pass
estimate_call(o) ==
  /\ run.pc = "estimate"
  /\ ncalls < MaxCalls
  /\ ncalls' = ncalls + 1
  /\ IF o.kind # "elapsed"
     THEN RunExcept(o.kind)
     ELSE LET t == run.t + o.e
              task_num == Len(Order) * run.repeat
          IN  /\ IF run.k < Len(Order)
                 THEN /\ run' = [run EXCEPT !.t = t, !.k = run.k + 1]
                      /\ out' = out
                 ELSE IF t > Threshold
                 THEN LET p == NextProgress(run.show, 0, task_num, out)
                      IN  /\ run' = [run EXCEPT
                                !.pc = "measure",
                                !.number = EstimateNumber(run.n, run.time, t,
                                                          run.repeat),
                                !.t = t, !.k = 1, !.pi = p.pi]
                          /\ out' = p.out
                 ELSE /\ run' = [run EXCEPT !.n = GrowN(run.n, t), !.t = 0,
                                            !.k = 1]
                      /\ out' = out
              /\ UNCHANGED <<catch_interrupt, ret, cmp>>
  /\ UNCHANGED <<timer, timer_id, stats, number, stats_namedtuple>>

\* mutant: the timed call writes its result into the timer itself
measure_call_InPlace(o) ==
  /\ run.pc = "measure"
  /\ ncalls < MaxCalls
  /\ ncalls' = ncalls + 1
  /\ IF o.kind # "elapsed"
     THEN RunExcept(o.kind) /\ timer' = timer
     ELSE LET id == Order[run.k]
              last == run.k = Len(Order)
              trial == IF last THEN run.trial + 1 ELSE run.trial
          IN  /\ timer' = [timer EXCEPT
                     ![id].time = Append(@, Frac(o.e, run.number)),
                     ![id].total_time = @ + o.e]
              /\ run' = [run EXCEPT
                     !.k = IF last THEN 1 ELSE run.k + 1,
                     !.trial = trial,
                     !.pc = IF last /\ TrialsDone(trial, run.repeat)
                            THEN "finish" ELSE "measure"]
              /\ UNCHANGED <<catch_interrupt, ret, cmp, out>>
  /\ UNCHANGED <<timer_id, stats, number, stats_namedtuple>>

\* one timed call of the measuring loop with what follows it in the loop body
measure_call(o) ==
  /\ run.pc = "measure"
  /\ ncalls < MaxCalls
  /\ ncalls' = ncalls + 1
  /\ IF o.kind # "elapsed"
     THEN RunExcept(o.kind)
     ELSE LET id == Order[run.k]
              task_num == Len(Order) * run.repeat
              res == [time |-> Append(run.new[id].time, Frac(o.e, run.number)),
                      total_time |-> run.new[id].total_time + o.e]
              p == NextProgress(run.show, run.pi, task_num, out)
              last == run.k = Len(Order)
              trial == IF last THEN run.trial + 1 ELSE run.trial
          IN  IF p.exc # "none"
              THEN RunExcept(p.exc)
              ELSE /\ run' = [run EXCEPT
                        !.new = [run.new EXCEPT ![id] = res],
                        !.pi = p.pi,
                        !.k = IF last THEN 1 ELSE run.k + 1,
                        !.trial = trial,
                        !.pc = IF last /\ TrialsDone(trial, run.repeat)
                               THEN "finish" ELSE "measure"]
                   /\ out' = p.out
                   /\ UNCHANGED <<catch_interrupt, ret, cmp>>
  /\ UNCHANGED <<timer, timer_id, stats, number, stats_namedtuple>>

\* result['time'] = tuple(result['time']) and the statistics of the result
RunResult(res) ==
  [time |-> res.time,
   total_time |-> res.total_time,
   stats |-> [s \in RegNames(stats) |-> _stat_call(RegFunc(stats, s), res.time)],
   results |-> "None"]

\* timer.__dict__.update(result): the keys of the result are 'time',
\* 'total_time', 'stats' and '_results'
Update(t, result) ==
  [t EXCEPT !.time = result.time,
            !.total_time = result.total_time,
            !.stats = result.stats,
            !.results = result.results]

\* the end of run, after the try statement
run_finish ==
  /\ run.pc = "finish"
  /\ out' = IF run.show THEN Append(out, [ev |-> "newline"]) ELSE out
  /\ timer' = [i \in DOMAIN timer |-> Update(timer[i], RunResult(run.new[i]))]
  /\ number' = run.number
  /\ run' = Idle
  /\ IF cmp.pc = "none"
     THEN /\ ret' = Returned("run") /\ cmp' = cmp
     ELSE /\ ret' = ret /\ cmp' = [cmp EXCEPT !.pc = "print"]
  /\ UNCHANGED <<timer_id, stats, stats_namedtuple, catch_interrupt, ncalls>>

\* ----------------------------------------------------------- print_results

NoneArg == [type |-> "None", val |-> << >>]
NoneSet == [type |-> "None", val |-> {}]
SetArg(S) == [type |-> "set", val |-> S]
ListArg(l) == [type |-> "list", val |-> l]
NumArg(n) == [type |-> "int", val |-> n]
BadArg == [type |-> "str", val |-> 0]

\* mutant: the test is left out
BothGiven_Never(include, exclude) == FALSE

\* if include is not None and exclude is not None
BothGiven(include, exclude) == include.type # "None" /\ exclude.type # "None"

\* The orders in which iterating over set(include) can visit its elements.
\* The language leaves the order of a set open: CPython visits the elements
\* by hash slot (list({1, 8}) is [8, 1]), other builds by insertion, so every
\* order of the elements is an outcome.
SetOrders(S) ==
  {q \in [1 .. Cardinality(S) -> S] : \A i, j \in DOMAIN q : q[i] = q[j] => i = j}

\* the timers selected by include / exclude, as their ids; order is the
\* order in which set(include) is visited
SelectTimers(include, exclude, order) ==
  IF include.type # "None"
  THEN IF include.val \subseteq DOMAIN timer
       THEN [exc |-> "none", val |-> order]
       ELSE [exc |-> "KeyError", val |-> << >>]
  ELSE IF exclude.type # "None"
  THEN [exc |-> "none", val |-> SelectSeq(Order, LAMBDA i : i \notin exclude.val)]
  ELSE [exc |-> "none", val |-> Order]

\* [self._check_stat_select(stat) for stat in stats]: the first error, or the
\* names in lower case
RECURSIVE CheckStats(_)
CheckStats(args) ==
  IF args = << >> THEN [exc |-> "none", val |-> << >>]
  ELSE LET c == _check_stat_select(Head(args))
           rest == CheckStats(Tail(args))
       IN  IF c.exc # "none" THEN [exc |-> c.exc, val |-> << >>]
           ELSE IF rest.exc # "none" THEN rest
           ELSE [exc |-> "none", val |-> <<c.val>> \o rest.val]

SeqRange(q) == {q[i] : i \in DOMAIN q}

ClampPrecision(precision) ==
  IF precision < MinPrecision THEN MinPrecision
  ELSE IF precision > MaxPrecision THEN MaxPrecision
  ELSE precision

\* Compare._print_results_args: the error raised, or the checked arguments
_print_results_args(include, exclude, order, sort_by, reverse, sts, percentage, precision) ==
  LET err(e) == [exc |-> e]
      sel == SelectTimers(include, exclude, order)
      sb == IF sort_by.type = "None" THEN [exc |-> "none", val |-> << >>]
            ELSE _check_stat_select(sort_by)
      st == IF sts.type = "None"
            THEN [exc |-> "none", val |-> RegFields(stats)]
            ELSE CheckStats(sts.val)
      pl == IF percentage.type # "None" THEN percentage.val
            ELSE IF sort_by.type = "None" THEN << >>
            ELSE << StrArg(sb.val) >>
      pc == CheckStats(pl)
  IN  IF BothGiven(include, exclude) THEN err("ValueError")
      ELSE IF sel.exc # "none" THEN err(sel.exc)
      ELSE IF sb.exc # "none" THEN err(sb.exc)
      ELSE IF st.exc # "none" THEN err(st.exc)
      ELSE IF pc.exc # "none" THEN err(pc.exc)
      ELSE IF precision.type # "int" THEN err("TypeError")
      ELSE [exc |-> "none",
            timers |-> sel.val,
            sort_by |-> IF sort_by.type = "None" THEN NoneArg
                        ELSE StrArg(sb.val),
            reverse |-> reverse,
            stats |-> st.val,
            percentage |-> SeqRange(pc.val) \cap SeqRange(st.val),
            precision |-> ClampPrecision(precision.val)]

\* the order of two statistic values
VLess(a, b) == FLess(a.v, b.v)

\* list.sort(key=..., reverse=reverse) is stable in both directions: x goes
\* before the first element that must follow it
RECURSIVE InsertBy(_, _, _, _)
InsertBy(x, q, stat, reverse) ==
  IF q = << >> THEN <<x>>
  ELSE LET before ==
             IF reverse
             THEN VLess(timer[Head(q)].stats[stat], timer[x].stats[stat])
             ELSE VLess(timer[x].stats[stat], timer[Head(q)].stats[stat])
       IN  IF before THEN <<x>> \o q
           ELSE <<Head(q)>> \o InsertBy(x, Tail(q), stat, reverse)

RECURSIVE SortBy(_, _, _, _)
SortBy(done, rest, stat, reverse) ==
  IF rest = << >> THEN done
  ELSE SortBy(InsertBy(Head(rest), done, stat, reverse), Tail(rest), stat,
              reverse)

\* timers_sort + timers_none
SortTimers(timers, sort_by, reverse) ==
  IF sort_by.type = "None" THEN timers
  ELSE LET timers_sort ==
             SelectSeq(timers, LAMBDA i : timer[i].stats[sort_by.val] # None)
           timers_none ==
             SelectSeq(timers, LAMBDA i : timer[i].stats[sort_by.val] = None)
       IN  SortBy(<< >>, timers_sort, sort_by.val, reverse) \o timers_none

\* max_value[stat]: the largest value of the displayed timers, from 0.0
RECURSIVE MaxValue(_, _, _)
MaxValue(timers, stat, sofar) ==
  IF timers = << >> THEN sofar
  ELSE LET value == timer[Head(timers)].stats[stat]
       IN  MaxValue(Tail(timers), stat,
                    IF value # None /\ VLess(sofar, value) THEN value ELSE sofar)

Zero == Num(<<0, 1>>)

\* percent = value / max_value[stat] if max_value[stat] else 1.0
Percent(value, max_value) ==
  IF max_value.v[1] # 0
  THEN [kind |-> "num",
        v |-> Frac(value.v[1] * max_value.v[2], value.v[2] * max_value.v[1]),
        sqrt |-> value.sqrt]
  ELSE Num(<<1, 1>>)

\* _Timer.get_line: the cells of one row, before they are formatted
get_line(id, sts, percentage, timers) ==
  [id |-> id,
   repeat |-> Len(timer[id].time),
   value |-> [i \in DOMAIN sts |-> timer[id].stats[sts[i]]],
   percent |-> [i \in DOMAIN sts |->
                  IF sts[i] \notin percentage THEN [kind |-> "no column"]
                  ELSE IF timer[id].stats[sts[i]] = None THEN None
                  ELSE Percent(timer[id].stats[sts[i]],
                               MaxValue(timers, sts[i], Zero))]]

RECURSIVE SumTotal(_)
SumTotal(timers) ==
  IF timers = << >> THEN 0
  ELSE timer[Head(timers)].total_time + SumTotal(Tail(timers))

\* Compare._print_results: the table that is printed
_print_results(a) ==
  LET timers == SortTimers(a.timers, a.sort_by, a.reverse)
  IN  [ev |-> "table",
       stats |-> a.stats,
       sort_by |-> a.sort_by,
       reverse |-> a.reverse,
       percentage |-> a.percentage,
       body |-> [i \in DOMAIN timers |->
                   get_line(timers[i], a.stats, a.percentage, timers)],
       number |-> number,
       total_time |-> SumTotal(timers)]

\* Compare.print_results
print_results(include, exclude, sort_by, reverse, sts, percentage, precision) ==
  /\ Direct
  /\ \E order \in SetOrders(include.val) :
       LET a == _print_results_args(include, exclude, order, sort_by, reverse,
                                    sts, percentage, precision)
       IN  /\ ret' = [op |-> "print_results", exc |-> a.exc,
                      include |-> include.type # "None",
                      exclude |-> exclude.type # "None"]
           /\ out' = IF a.exc # "none" THEN << >> ELSE << _print_results(a) >>
      /\ UNCHANGED <<timer, timer_id, stats, number, stats_namedtuple,
                     catch_interrupt, run, cmp, ncalls>>

\* --------------------------------------------------------------- compare()

\* compare() is called: cmp = Compare()
compare_call ==
  /\ Direct
  /\ ret.op = "__init__"
  /\ cmp' = [pc |-> "add_timers"]
  /\ ret' = [op |-> "compare", exc |-> "running"]
  /\ UNCHANGED <<timer, timer_id, stats, number, stats_namedtuple,
                 catch_interrupt, run, ncalls, out>>

\* for args in add_timers: cmp.add_timer(*args)
cmp_add_timer ==
  /\ cmp.pc = "add_timers"
  /\ timer_id < MaxTimers
  /\ DoAddTimer
  /\ UNCHANGED <<stats, number, stats_namedtuple, catch_interrupt, run, cmp,
                 ncalls, out, ret>>

\* for stat, func in add_stats: cmp.add_stat(stat, func)
cmp_add_stat(stat, func) ==
  /\ cmp.pc \in {"add_timers", "add_stats"}
  /\ \E exc \in {"none", "TypeError", "ValueError"} :
       /\ DoAddStat(stat, func, exc)
       /\ IF exc = "none"
          THEN /\ cmp' = [cmp EXCEPT !.pc = "add_stats"]
               /\ ret' = ret
          ELSE RaiseOut("compare", exc)
  /\ UNCHANGED <<timer_id, number, catch_interrupt, run, ncalls, out>>

\* print_results_args = cmp._print_results_args(None, None, ...) and
\* cmp._catch_interrupt = None
cmp_validate(sort_by, reverse, sts, percentage, precision) ==
  LET a == _print_results_args(NoneSet, NoneSet, << >>, sort_by, reverse, sts,
                               percentage, precision)
  IN  /\ cmp.pc \in {"add_timers", "add_stats"}
      /\ IF a.exc # "none"
         THEN /\ RaiseOut("compare", a.exc)
              /\ catch_interrupt' = catch_interrupt
         ELSE /\ cmp' = [pc |-> "run_call", args |-> a]
              /\ catch_interrupt' = "None"
              /\ ret' = ret
      /\ UNCHANGED <<timer, timer_id, stats, number, stats_namedtuple, run,
                     ncalls, out>>

\* cmp.run(repeat, number, time, show_progress)
cmp_run(repeat, num, time, show, badtype) ==
  /\ cmp.pc = "run_call"
  /\ ncalls' = ncalls
  /\ DoRunStart(repeat, num, time, show, badtype)
  /\ UNCHANGED <<timer, timer_id, stats, number, stats_namedtuple,
                 catch_interrupt>>

\* mutant: the arguments of print_results are checked only now, and one is
\* of the wrong type
cmp_print_ValidatesLate ==
  /\ cmp.pc = "print"
  /\ RaiseOut("compare", "TypeError")
  /\ UNCHANGED <<timer, timer_id, stats, number, stats_namedtuple,
                 catch_interrupt, run, ncalls, out>>

\* interrupt = cmp._catch_interrupt; cmp._print_results(*print_results_args)
cmp_print ==
  /\ cmp.pc = "print"
  /\ out' = Append(out, _print_results(cmp.args))
  /\ cmp' = [cmp EXCEPT !.pc = "printed"]
  /\ UNCHANGED <<timer, timer_id, stats, number, stats_namedtuple,
                 catch_interrupt, run, ncalls, ret>>

\* if interrupt is not None: raise interrupt
cmp_end ==
  /\ cmp.pc = "printed"
  /\ IF catch_interrupt # "None"
     THEN /\ cmp' = [cmp EXCEPT !.pc = "raised"]
          /\ ret' = Raise("compare", catch_interrupt)
     ELSE /\ cmp' = [cmp EXCEPT !.pc = "returned"]
          /\ ret' = Returned("compare")
  /\ UNCHANGED <<timer, timer_id, stats, number, stats_namedtuple,
                 catch_interrupt, run, ncalls, out>>

\* ---------------------------------------- estimation under a cost model
\* The Estimating phase of Compare.run when every call of timeit(n) of timer
\* i takes exactly n * cost[i] ticks.

\* the sum of a cost vector
RECURSIVE CostSum(_, _)
CostSum(cost, ids) ==
  IF ids = {} THEN 0
  ELSE LET i == CHOOSE i \in ids : TRUE
       IN  cost[i] + CostSum(cost, ids \ {i})

\* the iteration count that the while loop of run ends with, from count n,
\* when one call of all statements costs c > 0 ticks
RECURSIVE EstimateUnder(_, _, _, _)
EstimateUnder(n, c, time, repeat) ==
  IF n * c > Threshold THEN EstimateNumber(n, time, n * c, repeat)
  ELSE EstimateUnder(GrowN(n, n * c), c, time, repeat)

\* run(repeat, 0, time) has been called on a Compare object with MaxTimers
\* timers and is about to make its first calibration pass
Cost_Init ==
  /\ timer = [i \in 0 .. MaxTimers - 1 |-> TimerAddStats(NewTimer, _DEFAULT_STATS)]
  /\ timer_id = MaxTimers
  /\ stats = _DEFAULT_STATS
  /\ number = 0
  /\ stats_namedtuple = None
  /\ catch_interrupt = "absent"
  /\ cmp = NoCompare
  /\ ncalls = 0
  /\ out = << >>
  /\ ret = [op |-> "run", exc |-> "running"]
  /\ \E cost \in [0 .. MaxTimers - 1 -> {1, 2, 5}], time \in {20, 50, 100},
        repeat \in {1, 2, 5} :
       run = [pc |-> "estimate", cost |-> cost, time |-> time,
              repeat |-> repeat, n |-> 1, t |-> 0, number |-> 0]

\* one turn of the while loop: a pass over all timers at count n, then
\* either the estimate or a larger n
Cost_estimate_pass ==
  /\ run.pc = "estimate"
  /\ LET t == run.n * CostSum(run.cost, DOMAIN timer)
     IN  run' = IF t > Threshold
                THEN [run EXCEPT !.pc = "measure", !.t = t,
                                 !.number = EstimateNumber(run.n, run.time, t,
                                                           run.repeat)]
                ELSE [run EXCEPT !.t = t, !.n = GrowN(run.n, t)]
  /\ ncalls' = ncalls
  /\ UNCHANGED <<timer, timer_id, stats, number, stats_namedtuple,
                 catch_interrupt, cmp, out, ret>>

Cost_Next == Cost_estimate_pass

Cost_Spec == Cost_Init /\ [][Cost_Next]_vars

\* ------------------------------------- the single-file module (version 1)
\* src/timeit_compare.py keeps its Compare object in the same variables:
\* timer is self._timer, timer_id is self._index, number is self._number,
\* cmp.repeat is self._repeat, run is the frame of Compare._run.  A timer has
\* the attributes error, time, total_time, mean, median, min, max, std.

Complex == [kind |-> "complex"]

Legacy_Object(repeat) == [pc |-> "none", repeat |-> repeat]

\* Compare.__init__
Legacy_Init ==
  /\ timer = << >>
  /\ timer_id = 0
  /\ number = 0
  /\ cmp = Legacy_Object(0)
  /\ run = Idle
  /\ ncalls = 0
  /\ out = << >>
  /\ ret = Returned("__init__")
  /\ stats = << >>
  /\ stats_namedtuple = None
  /\ catch_interrupt = "absent"

\* _Timer.__init__, and _Timer.reset
Legacy_NewTimer ==
  [error |-> "None", time |-> << >>, total_time |-> 0, mean |-> None,
   median |-> None, min |-> None, max |-> None, std |-> None]

\* the radicand (sum(i * i) - n * mean * mean) / (n - 1) is computed in
\* floating point and comes out below 0 for some sequences of equal
\* durations, e.g. -1.7e-18 for [0.1, 0.1, 0.1] and -1.1e-19 for
\* [0.025, 0.025, 0.025]; for two equal durations it is 0.0 exactly
NegativeRadicand(time) ==
  Len(time) >= 3 /\ \A i \in DOMAIN time : time[i] = time[1]

\* std in _Timer.statistic: negative is whether the radicand came out
\* below 0, in which case ** 0.5 gives a complex number
Legacy_Std(time, negative) ==
  IF Len(time) < 2 THEN None
  ELSE IF negative THEN Complex
  ELSE Stdev(time)

\* _Timer.statistic
Legacy_statistic(t, negative) ==
  IF t.time = << >>
  THEN [t EXCEPT !.mean = None, !.median = None, !.min = None, !.max = None,
                 !.std = None]
  ELSE [t EXCEPT !.mean = Fmean(t.time), !.median = Median(t.time),
                 !.min = Min(t.time), !.max = Max(t.time),
                 !.std = Legacy_Std(t.time, negative)]

\* Compare.add_timer
Legacy_add_timer ==
  /\ Direct
  /\ timer_id < MaxTimers
  /\ timer' = [i \in DOMAIN timer \cup {timer_id} |->
                 IF i = timer_id THEN Legacy_NewTimer ELSE timer[i]]
  /\ timer_id' = timer_id + 1
  /\ ret' = [op |-> "add_timer", exc |-> "none", val |-> timer_id]
  /\ out' = << >>
  /\ UNCHANGED <<stats, number, stats_namedtuple, catch_interrupt, run, cmp,
                 ncalls>>

\* Compare.reset
Legacy_reset ==
  /\ Direct
  /\ timer' = [i \in DOMAIN timer |-> Legacy_NewTimer]
  /\ cmp' = Legacy_Object(0)
  /\ number' = 0
  /\ ret' = Returned("reset")
  /\ out' = << >>
  /\ UNCHANGED <<timer_id, stats, stats_namedtuple, catch_interrupt, run,
                 ncalls>>

\* Compare._select: the selected timers, or the error
Legacy_select(include, exclude, order) ==
  IF include.type # "None" /\ exclude.type # "None"
  THEN [exc |-> "ValueError", val |-> << >>]
  ELSE IF include.type # "None"
  THEN IF include.val \subseteq DOMAIN timer
       THEN [exc |-> "none", val |-> order]
       ELSE [exc |-> "KeyError", val |-> << >>]
  ELSE IF exclude.type # "None"
  THEN [exc |-> "none", val |-> SelectSeq(Order, LAMBDA i : i \notin exclude.val)]
  ELSE [exc |-> "none", val |-> Order]

\* Compare.run with show_process=False, up to the first call of a timer:
\* _run_args, _select, reset, and the start of _run
Legacy_run_start(repeat, num, time, include, exclude) ==
  /\ Direct
  /\ out' = << >>
  /\ \E order \in SetOrders(include.val) :
       LET sel == Legacy_select(include, exclude, order)
           r == IF repeat < 1 THEN 1 ELSE repeat
           n == IF num < 0 THEN 0 ELSE num
           t == IF time < 0 THEN 0 ELSE time
       IN  IF sel.exc # "none"
           THEN /\ ret' = Raise("run", sel.exc)
                /\ UNCHANGED <<timer, cmp, number, run>>
           ELSE /\ ret' = [op |-> "run", exc |-> "running"]
                /\ timer' = [i \in DOMAIN timer |-> Legacy_NewTimer]
                /\ cmp' = Legacy_Object(0)
                /\ number' = 0
                /\ run' = [pc |-> IF sel.val = << >> THEN "finish"
                                  ELSE IF n = 0 THEN "estimate" ELSE "measure",
                           args |-> [repeat |-> repeat, number |-> num,
                                     time |-> time],
                           timers |-> sel.val, repeat |-> r, number |-> n,
                           time |-> t, n |-> 1, total_time |-> 0, k |-> 1,
                           trial |-> 0, error |-> 0]
  /\ UNCHANGED <<timer_id, stats, stats_namedtuple, catch_interrupt, ncalls>>

\* _Timer.pre_interrupt for every timer of the run
Legacy_pre_interrupt(tm, ids) ==
  [i \in DOMAIN tm |->
     IF i \in ids /\ tm[i].error = "None"
     THEN [tm[i] EXCEPT !.error = "KeyboardInterrupt"] ELSE tm[i]]

\* _Timer.interrupt for every timer of the run
Legacy_interrupt(tm, ids, repeat) ==
  [i \in DOMAIN tm |->
     IF i \in ids /\ tm[i].error = "None" /\ Len(tm[i].time) < repeat
     THEN [tm[i] EXCEPT !.error = "KeyboardInterrupt"] ELSE tm[i]]

\* the number of timers of the run with an error
Legacy_Errors(tm, ids) == Cardinality({i \in ids : tm[i].error # "None"})

\* mutant: a timer with an error is called like any other
Legacy_Skips_Never(t) == FALSE

\* if self.error is None: ... (otherwise the timer is not called)
Legacy_Skips(t) == t.error # "None"

\* the end of one pass of estimate(), for the timers tm and the frame f
Legacy_EndOfPass(tm, f) ==
  IF Legacy_Errors(tm, SeqRange(f.timers)) = Len(f.timers)
  THEN [f EXCEPT !.pc = "measure", !.number = 0, !.k = 1,
                 !.error = Len(f.timers)]
  ELSE IF f.total_time > Threshold
  THEN [f EXCEPT !.pc = "measure", !.k = 1,
                 !.number = EstimateNumber(f.n, f.time, f.total_time, f.repeat)]
  ELSE [f EXCEPT !.n = 2 * f.n, !.k = 1, !.total_time = 0]

\* estimate(): timer.pre_timeit(n) for the next timer of the pass
Legacy_estimate_call(o) ==
  /\ cmp.pc = "none"
  /\ run.pc = "estimate"
  /\ LET id == run.timers[run.k]
         last == run.k = Len(run.timers)
         step(tm, f) ==
           /\ timer' = tm
           /\ run' = IF last THEN Legacy_EndOfPass(tm, f)
                     ELSE [f EXCEPT !.k = run.k + 1]
     IN  IF Legacy_Skips(timer[id])
         THEN /\ step(timer, run)
              /\ ncalls' = ncalls
         ELSE /\ ncalls < MaxCalls
              /\ ncalls' = ncalls + 1
              /\ CASE o.kind = "elapsed" ->
                        step(timer, [run EXCEPT !.total_time = @ + o.e])
                   [] o.kind = "Exception" ->
                        step([timer EXCEPT ![id].error = "Exception"],
                             [run EXCEPT !.error = @ + 1])
                   [] OTHER ->
                        LET tm == Legacy_pre_interrupt(timer,
                                                       SeqRange(run.timers))
                        IN  /\ timer' = tm
                            /\ run' = [run EXCEPT
                                         !.pc = "measure", !.k = 1,
                                         !.error = Legacy_Errors(
                                                     tm, SeqRange(run.timers))]
  /\ UNCHANGED <<timer_id, stats, number, stats_namedtuple, catch_interrupt,
                 cmp, out, ret>>

\* the measuring loop: timer.timeit(number) for the next timer of the trial
Legacy_measure_call(o) ==
  /\ cmp.pc = "none"
  /\ run.pc = "measure"
  /\ LET id == run.timers[run.k]
         last == run.k = Len(run.timers)
         next(f) ==
           IF ~last THEN [f EXCEPT !.k = run.k + 1]
           ELSE IF run.trial + 1 >= run.repeat THEN [f EXCEPT !.pc = "finish"]
           ELSE [f EXCEPT !.k = 1, !.trial = run.trial + 1]
     IN  IF Legacy_Skips(timer[id])
         THEN /\ timer' = timer
              /\ run' = next(run)
              /\ ncalls' = ncalls
         ELSE /\ ncalls < MaxCalls
              /\ ncalls' = ncalls + 1
              /\ CASE o.kind = "elapsed" ->
                        /\ timer' = [timer EXCEPT
                                       ![id].time = Append(@, Frac(o.e, run.number)),
                                       ![id].total_time = @ + o.e]
                        /\ run' = next(run)
                   [] o.kind = "Exception" ->
                        /\ timer' = [timer EXCEPT ![id].error = "Exception"]
                        /\ run' = next([run EXCEPT !.error = @ + 1])
                   [] OTHER ->
                        LET tm == Legacy_interrupt(timer, SeqRange(run.timers),
                                                   run.repeat)
                        IN  /\ timer' = tm
                            /\ run' = [run EXCEPT
                                         !.pc = "finish",
                                         !.error = Legacy_Errors(
                                                     tm, SeqRange(run.timers))]
  /\ UNCHANGED <<timer_id, stats, number, stats_namedtuple, catch_interrupt,
                 cmp, out, ret>>

\* the end of _run: timer.statistic() for every timer of the run, then
\* self._repeat and self._number are set
Legacy_run_finish ==
  /\ cmp.pc = "none"
  /\ run.pc = "finish"
  /\ \E negative \in SUBSET {i \in SeqRange(run.timers) :
                              NegativeRadicand(timer[i].time)} :
       timer' = [i \in DOMAIN timer |->
                   IF i \in SeqRange(run.timers)
                   THEN Legacy_statistic(timer[i], i \in negative)
                   ELSE timer[i]]
  /\ cmp' = Legacy_Object(run.repeat)
  /\ number' = run.number
  /\ run' = Idle
  /\ ret' = Returned("run")
  /\ UNCHANGED <<timer_id, stats, stats_namedtuple, catch_interrupt, ncalls,
                 out>>

\* ----------------------------------------------------------- specifications

\* the ids given to del_timer, get_result, include and exclude
IdInputs == 0 .. MaxTimers

StatInputs ==
  { StrArg(<<"x">>), StrArg(<<"X">>), StrArg(<<"I", "F">>),
    StrArg(<<"i", "f">>), StrArg(<<"_", "p">>), StrArg(<<"1">>),
    StrArg(<< >>), StrArg(S_std), IntArg }

FuncInputs == {"len", "raises", "nonnum", NotCallable}

\* One Compare object used directly (add_timer, run) or by compare(): the
\* run with every outcome of each call of timeit.
Next ==
  \/ add_timer
  \/ \E repeat \in RepeatInputs, num \in NumberInputs, time \in TimeInputs,
        show \in BOOLEAN, badtype \in RunBadTypes :
       run_start(repeat, num, time, show, badtype)
  \/ \E o \in TimeitOutcomes : estimate_call(o)
  \/ \E o \in TimeitOutcomes : measure_call(o)
  \/ run_finish
  \/ compare_call
  \/ cmp_add_timer
  \/ \E stat \in {StrArg(<<"X">>), StrArg(<<"_", "p">>)} :
       cmp_add_stat(stat, "len")
  \/ \E sort_by \in {NoneArg, StrArg(S_mean), StrArg(<<"y">>)},
        sts \in {NoneArg, ListArg(<< StrArg(<<"y">>) >>)},
        percentage \in {NoneArg, ListArg(<< StrArg(<<"y">>) >>)},
        precision \in {NumArg(2), BadArg} :
       cmp_validate(sort_by, FALSE, sts, percentage, precision)
  \/ \E repeat \in RepeatInputs, num \in NumberInputs, time \in TimeInputs,
        show \in BOOLEAN, badtype \in RunBadTypes :
       cmp_run(repeat, num, time, show, badtype)
  \/ cmp_print
  \/ cmp_end

Spec == Init /\ [][Next]_vars

\* the outcomes of a call of timeit when run is called directly (an
\* interrupt then leaves run as an exception does)
DirectOutcomes ==
  {[kind |-> "elapsed", e |-> 1], [kind |-> "elapsed", e |-> 8],
   [kind |-> "Exception", e |-> 0]}

\* One Compare object used directly: timers are added and deleted,
\* statistics are added, replaced and deleted, and run is called with a
\* given number.
NextStats ==
  \/ add_timer
  \/ \E id \in IdInputs : del_timer(id)
  \/ \E stat \in {StrArg(<<"x">>), StrArg(<<"X">>), StrArg(<<"_", "p">>)},
        func \in {"len", "nonnum", NotCallable} : add_stat(stat, func)
  \/ \E stat \in {StrArg(<<"x">>), StrArg(S_std), IntArg} : del_stat(stat)
  \/ \E repeat \in {1, 2} : run_start(repeat, 2, 20, FALSE, "none")
  \/ \E o \in DirectOutcomes : measure_call(o)
  \/ run_finish

SpecStats == Init /\ [][NextStats]_vars

\* One Compare object used directly: statistics are added and deleted under
\* every kind of name, and results are fetched.
NextNames ==
  \/ add_timer
  \/ \E stat \in StatInputs, func \in FuncInputs : add_stat(stat, func)
  \/ \E stat \in StatInputs : del_stat(stat)
  \/ \E id \in IdInputs : get_result(id)

SpecNames == Init /\ [][NextNames]_vars

\* One Compare object used directly: add_timer, add_stat, del_stat, run and
\* get_result.
NextResult ==
  \/ add_timer
  \/ \E stat \in {StrArg(<<"X">>), StrArg(<<"I", "F">>)} : add_stat(stat, "len")
  \/ del_stat(StrArg(<<"x">>))
  \/ \E id \in IdInputs : get_result(id)
  \/ \E repeat \in {1, 2}, num \in {0, 2} : run_start(repeat, num, 20, FALSE, "none")
  \/ \E o \in DirectOutcomes : estimate_call(o)
  \/ \E o \in DirectOutcomes : measure_call(o)
  \/ run_finish

SpecResult == Init /\ [][NextResult]_vars

IncludeInputs == {NoneSet, SetArg({0}), SetArg({0, 1}), SetArg({MaxTimers})}
ExcludeInputs == {NoneSet, SetArg({0})}
SortByInputs == {NoneArg, StrArg(S_mean), StrArg(<<"x">>)}
PercentageInputs == {NoneArg, ListArg(<< StrArg(S_std), StrArg(S_min) >>)}
PrecisionInputs == {NumArg(2), BadArg}

\* One Compare object used directly: add_timer, run and print_results.
NextPrint ==
  \/ add_timer
  \/ \E repeat \in {1, 2} : run_start(repeat, 2, 20, FALSE, "none")
  \/ \E o \in DirectOutcomes : measure_call(o)
  \/ run_finish
  \/ \E include \in IncludeInputs, exclude \in ExcludeInputs,
        sort_by \in SortByInputs, reverse \in BOOLEAN,
        percentage \in PercentageInputs, precision \in PrecisionInputs :
       print_results(include, exclude, sort_by, reverse, NoneArg, percentage,
                     precision)

SpecPrint == Init /\ [][NextPrint]_vars

\* One Compare object used directly: a statistic that can be negative is
\* added, run is called, and tables with percentage columns are printed.
NextPercent ==
  \/ add_timer
  \/ add_stat(StrArg(<<"x">>), "negsum")
  \/ \E repeat \in {1, 2} : run_start(repeat, 2, 20, FALSE, "none")
  \/ \E o \in DirectOutcomes : measure_call(o)
  \/ run_finish
  \/ \E include \in {NoneSet, SetArg({0})}, exclude \in {NoneSet, SetArg({0})},
        sort_by \in {NoneArg, StrArg(S_mean)},
        sts \in {NoneArg, ListArg(<< StrArg(S_std), StrArg(S_mean) >>)},
        percentage \in {NoneArg, ListArg(<< StrArg(<<"x">>), StrArg(S_std) >>)} :
       print_results(include, exclude, sort_by, FALSE, sts, percentage,
                     NumArg(2))

SpecPercent == Init /\ [][NextPercent]_vars

\* One Compare object used directly: statistics with finite and infinite
\* values are added, run is called, and get_min / get_max are asked for
\* registered and unregistered statistics.
NextExtreme ==
  \/ add_timer
  \/ \E func \in {"negsum", "inf"} : add_stat(StrArg(<<"x">>), func)
  \/ \E repeat \in {1, 2} : run_start(repeat, 2, 20, FALSE, "none")
  \/ \E o \in DirectOutcomes : measure_call(o)
  \/ run_finish
  \/ \E stat \in {StrArg(S_mean), StrArg(S_std), StrArg(<<"X">>), IntArg} :
       get_min(stat) \/ get_max(stat)

SpecExtreme == Init /\ [][NextExtreme]_vars

\* One Compare object used directly: a statistic is registered with
\* functions of every kind of outcome, timers are added and run is called.
NextEval ==
  \/ add_timer
  \/ \E func \in {"len", "raises", "nonnum"} : add_stat(StrArg(<<"x">>), func)
  \/ \E repeat \in {1, 2} : run_start(repeat, 2, 20, FALSE, "none")
  \/ \E o \in DirectOutcomes : measure_call(o)
  \/ run_finish

SpecEval == Init /\ [][NextEval]_vars

\* The Compare object of the single-file module used directly.
Legacy_Outcomes ==
  {[kind |-> "elapsed", e |-> 1], [kind |-> "elapsed", e |-> 8],
   [kind |-> "Exception", e |-> 0], [kind |-> "KeyboardInterrupt", e |-> 0]}

Legacy_Next ==
  \/ Legacy_add_timer
  \/ Legacy_reset
  \/ \E repeat \in {0, 2, 3}, num \in {0, 2},
        include \in {NoneSet, SetArg({0})}, exclude \in {NoneSet, SetArg({0})} :
       Legacy_run_start(repeat, num, 20, include, exclude)
  \/ \E o \in Legacy_Outcomes : Legacy_estimate_call(o)
  \/ \E o \in Legacy_Outcomes : Legacy_measure_call(o)
  \/ Legacy_run_finish

Legacy_Spec == Legacy_Init /\ [][Legacy_Next]_vars

\* ------------------------------------------------------------------ claims

\* the statistics of a duration sequence under the current registry
StatsOf(time) ==
  [s \in RegNames(stats) |-> _stat_call(RegFunc(stats, s), time)]

\* run returns in this step (to its caller, or to compare())
RunReturns == run.pc = "finish" /\ run'.pc = "idle"

\* C1: for repeat = r >= 1, when run returns without an interrupt or a
\* statement error, every registered timer's duration sequence has length
\* exactly r.
C1_RepeatLength ==
  [][(RunReturns /\ catch_interrupt # "KeyboardInterrupt"
        /\ run.args.repeat >= 1)
       => \A i \in DOMAIN timer' : Len(timer'[i].time) = run.args.repeat]_vars

C1_Witness ==
  /\ ret = Returned("run")
  /\ Cardinality(DOMAIN timer) = 2
  /\ \A i \in DOMAIN timer : Len(timer[i].time) = 2

\* C2: when compare() ends with a KeyboardInterrupt, the interrupt was
\* captured by run, every timer's statistics are those of the durations it
\* has, and the last thing printed is the results table with one row per
\* timer showing these statistics.
C2_PrintedBeforeReraise ==
  (ret.op = "compare" /\ ret.exc = "KeyboardInterrupt") =>
    /\ catch_interrupt = "KeyboardInterrupt"
    /\ \A i \in DOMAIN timer : timer[i].stats = StatsOf(timer[i].time)
    /\ out # << >>
    /\ LET table == out[Len(out)]
       IN  /\ table.ev = "table"
           /\ {table.body[j].id : j \in DOMAIN table.body} = DOMAIN timer
           /\ \A j \in DOMAIN table.body :
                table.body[j].value =
                  [k \in DOMAIN table.stats |->
                     timer[table.body[j].id].stats[table.stats[k]]]

C2_Witness ==
  /\ ret.op = "compare" /\ ret.exc = "KeyboardInterrupt"
  /\ \E i, j \in DOMAIN timer : Len(timer[i].time) = 1 /\ Len(timer[j].time) = 0

\* C3 as stated: a KeyboardInterrupt never leaves run, however run was
\* invoked.
C3_Original == ~(ret.op = "run" /\ ret.exc = "KeyboardInterrupt")

\* C3 as amended: while run executes for compare(), no step ends compare()
\* with a KeyboardInterrupt; the step that captures the interrupt keeps the
\* durations collected so far and goes on to the end of run; and the end of
\* run commits these durations with their statistics and returns to
\* compare().
C3_CapturedInCompare ==
  [][cmp.pc = "run" =>
       /\ cmp'.pc = "raised" => ret'.exc # "KeyboardInterrupt"
       /\ catch_interrupt' # catch_interrupt =>
            /\ catch_interrupt' = "KeyboardInterrupt"
            /\ run'.pc = "finish"
            /\ run'.new = run.new
       /\ run.pc = "finish" =>
            /\ cmp'.pc = "print"
            /\ \A i \in DOMAIN timer' :
                 /\ timer'[i].time = run.new[i].time
                 /\ timer'[i].stats = StatsOf(run.new[i].time)]_vars

C3_Witness ==
  /\ cmp.pc = "print"
  /\ catch_interrupt = "KeyboardInterrupt"
  /\ \E i \in DOMAIN timer : Len(timer[i].time) = 1

\* C4 as stated: a statement's exception does not abort run.
C4_Original == ~(ret.op = "run" /\ ret.exc = "Exception")

\* a call of timeit in which the statement or the setup raises
StatementRaises ==
  \E o \in TimeitOutcomes :
    o.kind = "Exception" /\ (estimate_call(o) \/ measure_call(o))

\* C4 as amended: a statement's exception in a calibration or timed call
\* ends run at once with that exception, and nothing of the run is
\* committed.
C4_ExceptionAborts ==
  [][StatementRaises =>
       /\ ret'.exc = "Exception"
       /\ run'.pc = "idle"
       /\ UNCHANGED <<timer, number, stats>>]_vars

C4_Witness ==
  /\ ret = Raise("run", "Exception")
  /\ ncalls >= 3
  /\ Cardinality(DOMAIN timer) = 2
  /\ \A i \in DOMAIN timer : timer[i].time = << >>

\* C7: the measuring phase runs with one iteration count, which is at least
\* 1; it is the caller's number when that is > 0, and then no calibration
\* pass is made; otherwise it is max(round(n * time / t / repeat), 1) for
\* the calibration pass (count n, elapsed t > 0.2 s) that ended the
\* estimation, round being to the nearest integer with ties to even.
C7_SharedNumber ==
  /\ [](run.pc = "estimate" => run.args.number <= 0)
  /\ [](run.pc = "measure" =>
          /\ run.number >= 1
          /\ run.args.number > 0 => run.number = run.args.number
          /\ run.args.number <= 0 =>
               LET p == run.n * run.time
                   q == run.t * run.repeat
               IN  /\ run.t > Threshold
                   /\ \E r \in 0 .. p :
                        /\ 2 * Abs(p - r * q) <= q
                        /\ 2 * Abs(p - r * q) = q => r % 2 = 0
                        /\ run.number = IF r >= 1 THEN r ELSE 1)
  /\ [][run.pc = "measure" /\ run'.pc \in {"measure", "finish"}
          => run'.number = run.number]_vars

C7_Witness ==
  /\ run.pc = "measure"
  /\ run.args.number = 0
  /\ run.n = 2 /\ run.t = 8 /\ run.repeat = 2 /\ run.time = 20
  /\ run.number = 2

\* C5 as stated: the TimerResult that get_result returns has the timer's
\* current durations, their count, its current statistics (under the
\* registered names) and the iteration count of the most recent run.
C5_ResultCurrent ==
  (ret.op = "get_result" /\ ret.exc = "none") =>
    LET r == ret.val
        t == timer[ret.id]
    IN  /\ r.time = t.time
        /\ r.repeat = Len(t.time)
        /\ r.number = number
        /\ r.stats.fields = RegFields(stats)
        /\ r.stats.values = [i \in DOMAIN stats |-> t.stats[stats[i].name]]

\* C6: between calls, every registered timer's stats has exactly the
\* registered names as keys, and under each name the value of the
\* registered function on the timer's durations (None when the function
\* raises or returns no number).
C6_StatsMatchRegistry ==
  run.pc = "idle" =>
    \A i \in DOMAIN timer :
      /\ DOMAIN timer[i].stats = RegNames(stats)
      /\ \A s \in RegNames(stats) :
           timer[i].stats[s] = _stat_call(RegFunc(stats, s), timer[i].time)

C6_Witness ==
  /\ run.pc = "idle"
  /\ RegNames(stats) = {S_mean, S_median, S_min, S_max, <<"x">>}
  /\ RegFunc(stats, <<"x">>) = "nonnum"
  /\ \E i, j \in DOMAIN timer :
       /\ timer[i].time = << <<4, 1>>, <<1, 2>> >>
       /\ timer[i].stats[S_mean] = Num(<<9, 4>>)
       /\ timer[i].stats[<<"x">>] = None
       /\ timer[j].time = << >>
       /\ timer[j].stats[S_mean] = None

\* C8 as stated: every name in the registry is non-empty, an identifier, no
\* reserved word, does not start with an underscore, and is in lower case.
C8_RegistryNamesValid ==
  \A i \in DOMAIN stats :
    /\ Len(stats[i].name) > 0
    /\ IsIdentifier(stats[i].name)
    /\ ~IsKeyword(stats[i].name)
    /\ stats[i].name[1] # "_"
    /\ StrLower(stats[i].name) = stats[i].name

\* the names that add_stat must refuse: '_p', the keyword 'if', '1', '' and
\* a value that is no string
InvalidStatArgs ==
  { StrArg(<<"_", "p">>), StrArg(<<"i", "f">>), StrArg(<<"1">>),
    StrArg(<< >>), IntArg }

\* C9: add_stat with an invalid name or a func that is not callable, and
\* del_stat with a name that is not registered, end with an error and leave
\* the registry (with its order), the cached namedtuple and every timer
\* (its stats and its cached result) as they were.
C9_FailedStatCallChangesNothing ==
  [][/\ (/\ ret'.op = "add_stat"
         /\ (ret'.stat \in InvalidStatArgs \/ ret'.func = NotCallable))
          => /\ ret'.exc \in {"TypeError", "ValueError"}
             /\ UNCHANGED <<stats, stats_namedtuple, timer>>
     /\ (/\ ret'.op = "del_stat"
         /\ (\/ ret'.stat.type # "str"
             \/ StrLower(ret'.stat.val) \notin RegNames(stats)))
          => /\ ret'.exc \in {"TypeError", "ValueError"}
             /\ UNCHANGED <<stats, stats_namedtuple, timer>>]_vars

C9_Witness ==
  /\ ret.op = "add_stat" /\ ret.exc = "ValueError"
  /\ ret.stat = StrArg(<<"i", "f">>)
  /\ <<"x">> \in RegNames(stats)
  /\ \E i \in DOMAIN timer : timer[i].result # None

\* C10: print_results with both include and exclude given ends with a
\* ValueError, prints nothing, makes no call of timeit, and changes neither
\* the timers nor the statistics nor the recorded iteration count.
C10_IncludeAndExcludeRejected ==
  [][(ret'.op = "print_results" /\ ret'.include /\ ret'.exclude)
       => /\ ret'.exc = "ValueError"
          /\ out' = << >>
          /\ UNCHANGED <<timer, timer_id, stats, stats_namedtuple, number,
                         run, ncalls>>]_vars

C10_Witness ==
  /\ ret.op = "print_results" /\ ret.include /\ ret.exclude
  /\ \E i \in DOMAIN timer : Len(timer[i].time) = 2

\* the table most recently printed by print_results, when there is one
Printed == out # << >> /\ out[Len(out)].ev = "table"
Table == out[Len(out)]

\* C11 as stated: in a table sorted by s, the rows of the timers with a
\* defined value of s come first, in non-decreasing order of the value
\* (non-increasing with reverse), and the rows of the timers without a value
\* follow, in the order of their ids.
C11_SortedThenById ==
  (Printed /\ Table.sort_by.type # "None") =>
    LET s == Table.sort_by.val
        rows == Table.body
        v(i) == timer[rows[i].id].stats[s]
    IN  \A i, j \in DOMAIN rows :
          i < j =>
            /\ v(i) = None => v(j) = None
            /\ (v(i) # None /\ v(j) # None) =>
                 IF Table.reverse THEN ~VLess(v(i), v(j)) ELSE ~VLess(v(j), v(i))
            /\ (v(i) = None /\ v(j) = None) => rows[i].id < rows[j].id

\* what remains of C11 whatever the order of set(include): defined values
\* first and in order, then the timers without a value
C11_DefinedFirstInOrder ==
  (Printed /\ Table.sort_by.type # "None") =>
    LET s == Table.sort_by.val
        rows == Table.body
        v(i) == timer[rows[i].id].stats[s]
    IN  \A i, j \in DOMAIN rows :
          i < j =>
            /\ v(i) = None => v(j) = None
            /\ (v(i) # None /\ v(j) # None) =>
                 IF Table.reverse THEN ~VLess(v(i), v(j)) ELSE ~VLess(v(j), v(i))

\* a / b for fractions, b # 0
FDiv(a, b) ==
  IF b[1] > 0 THEN Frac(a[1] * b[2], a[2] * b[1])
  ELSE Frac(-(a[1] * b[2]), a[2] * (-b[1]))

\* the defined values in column i of the printed table
ColumnValues(i) ==
  {Table.body[r].value[i] : r \in DOMAIN Table.body} \ {None}

\* the largest of a non-empty set of values
Largest(vals) == CHOOSE m \in vals : \A w \in vals : ~VLess(m, w)

\* the cells of percentage column i, for the baseline b: value / b (100%
\* when b is 0) for a defined value, '-' for an unavailable one
PercentCells(i, b) ==
  \A r \in DOMAIN Table.body :
    LET value == Table.body[r].value[i]
        percent == Table.body[r].percent[i]
    IN  IF value = None THEN percent = None
        ELSE IF b.v[1] = 0 THEN percent = Num(<<1, 1>>)
        ELSE percent = [kind |-> "num", v |-> FDiv(value.v, b.v),
                        sqrt |-> value.sqrt]

\* the timers holding the largest value of column i are shown 100%
LargestIsWhole(i) ==
  \A r \in DOMAIN Table.body :
    (/\ Table.body[r].value[i] # None
     /\ Table.body[r].value[i] = Largest(ColumnValues(i)))
      => Table.body[r].percent[i].v = <<1, 1>>

\* C12 as stated: for every percentage column of a printed table, the
\* baseline is the largest defined value of the displayed timers (0 when
\* there is none), a defined value is shown as value / baseline (100% when
\* the baseline is 0), an unavailable one as '-', and the timer holding the
\* largest value is shown 100%.
C12_PercentOfMaximum ==
  Printed =>
    \A i \in DOMAIN Table.stats :
      Table.stats[i] \in Table.percentage =>
        /\ PercentCells(i, IF ColumnValues(i) = {} THEN Zero
                           ELSE Largest(ColumnValues(i)))
        /\ LargestIsWhole(i)

\* what the code does: the baseline is the largest of 0.0 and the defined
\* values, so it is 0 when every defined value is negative
C12_BaselineFromZero ==
  Printed =>
    \A i \in DOMAIN Table.stats :
      Table.stats[i] \in Table.percentage =>
        /\ PercentCells(i, Largest(ColumnValues(i) \cup {Zero}))
        /\ LargestIsWhole(i)

\* the registered timers with a defined value of statistic s
Defined(s) == {i \in DOMAIN timer : timer[i].stats[s] # None}

\* what get_min (least = TRUE) or get_max must have returned for the
\* registered statistic s
ExtremeOf(s, least) ==
  /\ ret.exc = "none"
  /\ ret.val = None <=> Defined(s) = {}
  /\ ret.val # None =>
       /\ ret.id \in Defined(s)
       /\ ret.val.id = ret.id
       /\ \A j \in Defined(s) :
            IF least THEN ~VLess(timer[j].stats[s], timer[ret.id].stats[s])
            ELSE ~VLess(timer[ret.id].stats[s], timer[j].stats[s])

\* C13 as stated: get_min / get_max of a registered statistic return the
\* result of a timer with a defined value that no other defined value is
\* below / above, and None exactly when no timer has a defined value; for a
\* statistic that is not registered they raise.
C13_MinMax ==
  ret.op \in {"get_min", "get_max"} =>
    IF ret.stat.type = "str" /\ StrLower(ret.stat.val) \in RegNames(stats)
    THEN ExtremeOf(StrLower(ret.stat.val), ret.op = "get_min")
    ELSE ret.exc \in {"TypeError", "ValueError"}

\* what holds of the code: the same, when no value of the statistic is
\* float('inf') for get_min or float('-inf') for get_max
C13_MinMaxFinite ==
  (/\ ret.op \in {"get_min", "get_max"}
   /\ ret.stat.type = "str"
   /\ \A i \in DOMAIN timer :
        StrLower(ret.stat.val) \in DOMAIN timer[i].stats =>
          timer[i].stats[StrLower(ret.stat.val)] \notin {Num(Inf), Num(NegInf)})
    => C13_MinMax

\* C14: the id that add_timer returns is the value of the instance's
\* counter, which the call advances by one and which never goes back, so the
\* returned ids are strictly increasing and none is returned twice, also not
\* after del_timer; the id is above the id of every registered timer and
\* names the new timer; no other call registers a timer or moves one to
\* another id.
C14_IdsIncrease ==
  /\ [](\A i \in DOMAIN timer : i < timer_id)
  /\ [][/\ timer_id' >= timer_id
        /\ ret'.op = "add_timer" =>
             /\ ret'.exc = "none"
             /\ ret'.val = timer_id
             /\ timer_id' = timer_id + 1
             /\ \A i \in DOMAIN timer : i < ret'.val
             /\ DOMAIN timer' = DOMAIN timer \cup {ret'.val}
        /\ ret'.op # "add_timer" =>
             /\ timer_id' = timer_id
             /\ DOMAIN timer' \subseteq DOMAIN timer
        /\ \A i \in DOMAIN timer \cap DOMAIN timer' :
             ret'.op \in {"add_timer", "del_timer"} => timer'[i] = timer[i]]_vars

C14_Witness ==
  /\ ret.op = "add_timer" /\ ret.val = 1
  /\ DOMAIN timer = {1}
  /\ timer_id = 2

\* C15: whatever a registered function does on a timer's durations (returns
\* a number, returns something else, raises), the value kept for the
\* statistic is that number or None, and add_timer, add_stat (with a valid
\* name and a callable) and the end of run return without an exception.
C15_StatNeverRaises ==
  /\ [](\A i \in DOMAIN timer : \A s \in DOMAIN timer[i].stats :
          LET o == FuncCall(RegFunc(stats, s), timer[i].time)
          IN  /\ o.kind \in {"num", "raised", "str"}
              /\ timer[i].stats[s] = IF o.kind = "num" THEN o ELSE None)
  /\ [][/\ ret'.op \in {"add_timer", "add_stat"} => ret'.exc = "none"
        /\ run.pc = "finish" => ret' = Returned("run")]_vars

C15_Witness ==
  /\ ret = Returned("run")
  /\ <<"x">> \in RegNames(stats)
  /\ RegFunc(stats, <<"x">>) = "raises"
  /\ \E i, j \in DOMAIN timer :
       /\ i # j
       /\ Len(timer[i].time) = 2 /\ Len(timer[j].time) = 2
       /\ timer[i].stats[<<"x">>] = None
       /\ timer[i].stats[S_mean] # None

\* C16 as stated, for the timers of the single-file module between calls:
\* std is None with fewer than 2 durations and a number >= 0 with 2 or more;
\* mean, median, min and max are None exactly when there is no duration.
C16_LegacyStd ==
  run.pc = "idle" =>
    \A i \in DOMAIN timer :
      LET t == timer[i]
      IN  /\ Len(t.time) < 2 => t.std = None
          /\ Len(t.time) >= 2 => t.std.kind = "num" /\ t.std.v[1] >= 0
          /\ \A v \in {t.mean, t.median, t.min, t.max} :
               v = None <=> t.time = << >>

\* the same for the package, where std is statistics.stdev: it holds of
\* every timer whose statistics are the built-in ones
C16_PackageStd ==
  \A i \in DOMAIN timer :
    LET t == timer[i]
        builtin(s, f) == s \in RegNames(stats) /\ RegFunc(stats, s) = f
    IN  /\ builtin(S_std, "stdev") =>
             /\ Len(t.time) < 2 => t.stats[S_std] = None
             /\ Len(t.time) >= 2 =>
                  t.stats[S_std].kind = "num" /\ t.stats[S_std].v[1] >= 0
        /\ \A p \in {<<S_mean, "fmean">>, <<S_median, "median">>,
                     <<S_min, "min">>, <<S_max, "max">>} :
             builtin(p[1], p[2]) =>
               (t.stats[p[1]] = None <=> t.time = << >>)

\* the errors raised for the arguments of compare()
ConfigErrors == {"TypeError", "ValueError"}

\* C17: when compare() ends with an error raised for its arguments (stat
\* name in add_stats, sort_by / stats / percentage name, type of precision,
\* repeat, number or time), no statement has been executed: timeit was not
\* called, no timer has a duration, and no iteration count is recorded.
C17_ConfigErrorsBeforeTiming ==
  (ret.op = "compare" /\ ret.exc \in ConfigErrors) =>
    /\ ncalls = 0
    /\ run.pc = "idle"
    /\ number = 0
    /\ \A i \in DOMAIN timer : timer[i].time = << >> /\ timer[i].total_time = 0

\* compare() with two statements and a stat, whose print_results arguments
\* were accepted, ends with the TypeError that run raises for its arguments
C17_Witness ==
  /\ ret = Raise("compare", "TypeError")
  /\ cmp.pc = "raised"
  /\ catch_interrupt = "None"
  /\ Cardinality(DOMAIN timer) = 2
  /\ <<"x">> \in RegNames(stats)

\* C18: with time and repeat fixed and every pass at count n taking n times
\* the sum of the timers' costs per call, the estimated number under a cost
\* vector is at least the estimated number under any vector that differs
\* from it by a higher cost of one timer.
C18_EstimateMonotone ==
  run.pc = "measure" =>
    \A i \in DOMAIN run.cost, d \in 1 .. MaxRaise :
      LET higher == [run.cost EXCEPT ![i] = @ + d]
      IN  /\ run.number = EstimateUnder(1, CostSum(run.cost, DOMAIN timer),
                                        run.time, run.repeat)
          /\ run.number >= EstimateUnder(1, CostSum(higher, DOMAIN timer),
                                         run.time, run.repeat)

\* a case in which the higher cost gives a strictly smaller number, after a
\* pass that stayed under the threshold
C18_Witness ==
  /\ run.pc = "measure"
  /\ run.n > 1
  /\ run.number > 1
  /\ \E i \in DOMAIN run.cost :
       run.number > EstimateUnder(1, CostSum([run.cost EXCEPT ![i] = @ + 1],
                                             DOMAIN timer),
                                  run.time, run.repeat)

\* the timer that the next step of the single-file module's _run turns to
Legacy_Current == run.timers[run.k]

\* timer i is executed in this step and its statement raises an Exception
Legacy_StatementRaises(i) ==
  /\ run.pc \in {"estimate", "measure"}
  /\ Legacy_Current = i
  /\ timer[i].error = "None"
  /\ \E o \in Legacy_Outcomes :
       /\ o.kind = "Exception"
       /\ Legacy_estimate_call(o) \/ Legacy_measure_call(o)

\* C19: in _run of the single-file module, the step in which a timer's
\* statement raises an Exception records the error in the timer; from then
\* on, to the end of the run, the timer is not called again and its
\* durations and its error stay as they are; and at the end of the run every
\* timer of the run without an error has exactly repeat durations (repeat
\* as _run receives it).
C19_LegacyErrorIsolation ==
  /\ [][\A i \in DOMAIN timer :
          /\ Legacy_StatementRaises(i) =>
               /\ timer'[i].error = "Exception"
               /\ timer'[i].time = timer[i].time
               /\ run'.pc # "idle"
               /\ \A j \in DOMAIN timer \ {i} : timer'[j] = timer[j]
          /\ (run.pc \in {"estimate", "measure"} /\ timer[i].error # "None") =>
               /\ timer'[i].time = timer[i].time
               /\ timer'[i].error = timer[i].error
               /\ Legacy_Current = i => ncalls' = ncalls]_vars
  /\ [](run.pc = "finish" =>
          \A i \in SeqRange(run.timers) :
            timer[i].error = "None" => Len(timer[i].time) = run.repeat)

\* a run of two timers with repeat = 2 has ended: timer 0 raised in its
\* second trial, timer 1 has both durations
C19_Witness ==
  /\ ret = Returned("run")
  /\ cmp.repeat = 2
  /\ DOMAIN timer = {0, 1}
  /\ timer[0].error = "Exception" /\ Len(timer[0].time) = 1
  /\ timer[1].error = "None" /\ Len(timer[1].time) = 2
  /\ timer[1].mean # None

\* elapsed times of one calibration call: 0, 0.15 s, 0.2 s and 0.4 s
GrowOutcomes == {[kind |-> "elapsed", e |-> e] : e \in {0, 3, 4, 8}}

\* One Compare object used directly: timers are added and run estimates the
\* number, with calibration passes that end below, at and above the
\* threshold.
NextGrow ==
  \/ add_timer
  \/ \E repeat \in {1, 2} : run_start(repeat, 0, 20, FALSE, "none")
  \/ \E o \in GrowOutcomes : estimate_call(o)
  \/ \E o \in GrowOutcomes : measure_call(o)
  \/ run_finish

SpecGrow == Init /\ [][NextGrow]_vars

\* the step that ends a calibration pass with t <= 0.2 and goes on to the
\* next pass
NextPass ==
  /\ run.pc = "estimate"
  /\ run'.pc = "estimate"
  /\ run.k = Len(Order)
  /\ ncalls' = ncalls + 1

\* C20 as stated: after a calibration pass at n with elapsed <= 0.2 s, the
\* next pass uses n' >= 2 * n.
C20_AtLeastDoubles == [][NextPass => run'.n >= 2 * run.n]_vars

\* C20, amended: after a calibration pass at n with elapsed <= 0.2 s, the
\* next pass uses n' > n with n' > 1.25 * n (0.25 / 0.2 = 1.25), and
\* n' >= 2 * n when n = 1.
C20_GrowsByAQuarter ==
  [][NextPass =>
       /\ run'.n > run.n
       /\ Growth * run.n < Threshold * run'.n
       /\ run.n = 1 => run'.n >= 2 * run.n]_vars

\* a second pass at n = 2 took 0.2 s and the third pass runs at n = 3 < 4
C20_Witness == run.pc = "estimate" /\ run.n = 3 /\ DOMAIN timer = {0} /\ ncalls = 2

\* estimate() of the single-file module: n <<= 1 doubles n after every pass
\* that goes on
C20_LegacyDoubles ==
  [][(run.pc = "estimate" /\ run'.pc = "estimate" /\ run'.n # run.n)
       => run'.n = 2 * run.n]_vars

\* ------------------------------------------ the Estimating phase as a loop
\* The while loop of Compare.run, one turn per step, when a call timeit(n) of
\* timer i takes at least n * cost[i] ticks (at most Slack ticks more in a
\* pass) and the statements of the timers in fail raise an Exception.

Slack == 1

\* run(repeat, 0, time) has been called directly on a Compare object with
\* MaxTimers timers and is about to make its first calibration pass
Live_Init ==
  /\ timer = [i \in 0 .. MaxTimers - 1 |-> TimerAddStats(NewTimer, _DEFAULT_STATS)]
  /\ timer_id = MaxTimers
  /\ stats = _DEFAULT_STATS
  /\ number = 0
  /\ stats_namedtuple = None
  /\ catch_interrupt = "absent"
  /\ cmp = NoCompare
  /\ ncalls = 0
  /\ out = << >>
  /\ ret = [op |-> "run", exc |-> "running"]
  /\ \E cost \in [0 .. MaxTimers - 1 -> {1, 2}], time \in {20, 50},
        repeat \in {1, 2}, fail \in SUBSET (0 .. MaxTimers - 1) :
       run = [pc |-> "estimate", cost |-> cost, fail |-> fail, time |-> time,
              repeat |-> repeat, n |-> 1, t |-> 0, number |-> 0,
              catch |-> HasCatchInterrupt]

\* one turn of the while loop in which every call timer.timeit(n) returns
Live_estimate_pass ==
  /\ run.pc = "estimate"
  /\ run.fail = {}
  /\ \E extra \in 0 .. Slack :
       LET t == run.n * CostSum(run.cost, DOMAIN timer) + extra
       IN  run' = IF t > Threshold
                  THEN [run EXCEPT !.pc = "measure", !.t = t,
                                   !.number = EstimateNumber(run.n, run.time, t,
                                                             run.repeat)]
                  ELSE [run EXCEPT !.t = t, !.n = GrowN(run.n, t)]
  /\ UNCHANGED <<timer, timer_id, stats, number, stats_namedtuple,
                 catch_interrupt, cmp, ncalls, out, ret>>

\* a turn of the while loop in which a call timer.timeit(n) raises: the
\* exception leaves the try statement
Live_estimate_raise ==
  /\ run.pc = "estimate"
  /\ run.fail # {}
  /\ RunExcept("Exception")
  /\ UNCHANGED <<timer, timer_id, stats, number, stats_namedtuple, ncalls>>

Live_Next == Live_estimate_pass \/ Live_estimate_raise

\* the loop goes on as long as it can: Python runs the while loop
Live_Spec == Live_Init /\ [][Live_Next]_vars /\ WF_vars(Live_Next)

\* C21 as stated: the Estimating phase always ends with a number, from a
\* pass above 0.2 s or, when calibration calls fail, from a default, and
\* run does not raise.
C21_AlwaysResolves ==
  /\ run.pc = "estimate" ~> run.pc = "measure"
  /\ [](ret.exc \in {"running", "none"})

\* C21, amended: when every calibration call returns and a pass at n takes
\* at least n * c, the Estimating phase reaches a pass above 0.2 s and that
\* pass gives number >= 1; when a calibration call raises, the phase ends
\* too, but run raises the exception and the recorded number stays as it was.
C21_EstimatingEnds ==
  /\ (run.pc = "estimate" /\ run.fail = {})
       ~> (run.pc = "measure" /\ run.t > Threshold /\ run.number >= 1)
  /\ (run.pc = "estimate" /\ run.fail # {})
       ~> (run.pc = "idle" /\ ret = Raise("run", "Exception") /\ number = 0)
  /\ [](run.pc = "idle" => ret = Raise("run", "Exception"))

\* the loop has gone through more than one pass and ended above 0.2 s
C21_Witness ==
  /\ run.pc = "measure"
  /\ run.fail = {}
  /\ run.n > 1
  /\ run.t > Threshold
  /\ run.number >= 1

\* estimate() of the single-file module: when the calibration calls of all
\* timers of the run have failed, estimate returns 0 and the Measuring phase
\* follows; a statement's Exception never leaves run
C21_LegacyDefault ==
  /\ [][(run.pc = "estimate" /\ run'.pc = "measure"
           /\ Legacy_Errors(timer', SeqRange(run.timers)) = Len(run.timers))
          => run'.number = 0]_vars
  /\ [](ret.op = "run" => ret.exc # "Exception")

\* the trials in res are those of a round-robin in the order of the ids, at
\* most repeat calls per timer, and total_time is the sum of the elapsed
\* times t of the trials, of which time holds t / num
RoundRobin(res, num, repeat) ==
  /\ \A i \in DOMAIN res :
       /\ Len(res[i].time) <= repeat
       /\ FMul(FSum(res[i].time), <<num, 1>>) = <<res[i].total_time, 1>>
  /\ \A i, j \in DOMAIN res :
       i < j => Len(res[i].time) - Len(res[j].time) \in {0, 1}

\* C22: at every point of the Measuring phase of Compare.run and in the
\* results of a run of compare(), interrupted or not, the numbers of
\* completed trials of two timers differ by at most 1, a timer registered
\* earlier never has fewer than one registered later, the timers before
\* the current position of the trial have one more than the others, and
\* each total_time is the sum of the elapsed times of the completed trials.
C22_RoundRobin ==
  /\ run.pc \in {"measure", "finish"} =>
       RoundRobin(run.new, run.number, run.repeat)
  /\ run.pc = "measure" =>
       \A p \in 1 .. Len(Order) :
         Len(run.new[Order[p]].time) = run.trial + (IF p < run.k THEN 1 ELSE 0)
  /\ cmp.pc \in {"print", "printed", "raised", "returned"} =>
       \E repeat \in 0 .. MaxCalls : RoundRobin(timer, number, repeat)

\* compare() was interrupted in the second timer's call of a trial: the
\* first timer has one trial more than the second
C22_Witness ==
  /\ cmp.pc = "print"
  /\ catch_interrupt = "KeyboardInterrupt"
  /\ DOMAIN timer = {0, 1}
  /\ Len(timer[0].time) = Len(timer[1].time) + 1
  /\ timer[0].total_time > 0

\* C23: from the call of Compare.run to the step in which run raises (a
\* TypeError for an argument, an exception of a statement, or a
\* KeyboardInterrupt when run was called directly), and likewise inside
\* compare(), no step changes a timer, the registry of statistics or the
\* recorded iteration count: only the step in which run returns commits.
C23_NothingCommitted ==
  [][(\/ ret'.op = "run" /\ ret'.exc # "none"
      \/ cmp.pc = "run" /\ cmp'.pc \in {"run", "raised"})
       => /\ timer' = timer
          /\ number' = number
          /\ stats' = stats
          /\ stats_namedtuple' = stats_namedtuple]_vars

\* a second run raised in its second timed call, after a first run that
\* returned: the timer still has the one duration of the first run
C23_Witness ==
  /\ ret = Raise("run", "Exception")
  /\ run.pc = "idle"
  /\ ncalls = 3
  /\ DOMAIN timer = {0}
  /\ Len(timer[0].time) = 1
  /\ timer[0].total_time > 0
  /\ number = 2

\* the progress updates printed so far, in the order of printing
Updates ==
  LET IsProgress(e) == e.ev = "progress"
  IN  SelectSeq(out, IsProgress)

\* the number of timed calls of the Measuring phase that have completed
Completed ==
  CostSum([i \in DOMAIN run.new |-> Len(run.new[i].time)], DOMAIN run.new)

\* C24: in a run with show_progress on, over k timers and repeat r, the
\* updates printed are 0/(k*r), 1/(k*r), ... in this order, one more than
\* the timed calls that completed (none at all before the Measuring phase
\* begins); the generator has been advanced as often as updates were
\* printed, at most k*r + 1 times, and never raises StopIteration; when the
\* loop has run all its trials the last update shows (k*r)/(k*r); an
\* interrupted run has printed an update for each completed call.  With
\* show_progress off nothing is printed.
C24_ProgressUpdates ==
  /\ ret.exc # "StopIteration"
  /\ run.pc \in {"estimate", "measure", "finish"} =>
       LET task_num == Len(Order) * run.repeat
       IN  /\ \A p \in 1 .. Len(Updates) :
                Updates[p] = ProgressEvent(p - 1, task_num)
           /\ Len(Updates) <= task_num + 1
           /\ ~run.show => out = << >>
           /\ run.show =>
                /\ run.pi = Len(Updates)
                /\ run.pc = "estimate" => Updates = << >>
                /\ run.pc = "measure" => Len(Updates) = Completed + 1
                /\ run.pc = "finish" =>
                     \/ Len(Updates) = Completed + 1
                     \/ Updates = << >> /\ Completed = 0
                /\ (run.pc = "finish" /\ TrialsDone(run.trial, run.repeat)) =>
                     /\ Completed = task_num
                     /\ Updates[Len(Updates)] = ProgressEvent(task_num, task_num)

\* the loop has run over two timers with repeat = 2 and show_progress on:
\* five updates, the last one 4/4
C24_Witness ==
  /\ run.pc = "finish"
  /\ run.show
  /\ run.repeat = 2
  /\ DOMAIN timer = {0, 1}
  /\ Len(Updates) = 5
  /\ Updates[5] = ProgressEvent(4, 4)

\* ------------------------------------------------------------ the table
\* _table renders a string; here a string is a sequence of characters and
\* the rendered table is the sequence of its lines.  The box-drawing
\* characters are written "+" (corners and junctions), "-" (horizontal) and
\* "|" (vertical); texts consist of the character "x".

Rep(c, n) == [i \in 1 .. n |-> c]

Text(n) == Rep("x", n)

\* mutant: the text is not padded
Center_NoPad(s, w) == s

\* format(s, '^w'): s centred in w characters, the odd blank on the right;
\* a longer s is left as it is
Center(s, w) ==
  IF Len(s) >= w THEN s
  ELSE LET pad == w - Len(s)
           left == pad \div 2
       IN  Rep(" ", left) \o s \o Rep(" ", pad - left)

\* format(s, '<w')
LeftAlign(s, w) == IF Len(s) >= w THEN s ELSE s \o Rep(" ", w - Len(s))

\* sep.join(parts)
RECURSIVE Join(_, _)
Join(sep, parts) ==
  IF parts = << >> THEN << >>
  ELSE IF Len(parts) = 1 THEN parts[1]
  ELSE parts[1] \o sep \o Join(sep, Tail(parts))

RECURSIVE SumSeq(_)
SumSeq(q) == IF q = << >> THEN 0 ELSE Head(q) + SumSeq(Tail(q))

RECURSIVE MaxSeq(_)
MaxSeq(q) == IF Len(q) = 1 THEN q[1] ELSE Max2(q[1], MaxSeq(Tail(q)))

\* str(n) for n >= 1
RECURSIVE DecimalDigits(_)
DecimalDigits(n) ==
  LET d == <<"0", "1", "2", "3", "4", "5", "6", "7", "8", "9">>[(n % 10) + 1]
  IN  IF n < 10 THEN <<d>> ELSE Append(DecimalDigits(n \div 10), d)

\* f'Table {next(_TABLE_NUMBER)}. {title}'
TableTitle(k, title) ==
  <<"T", "a", "b", "l", "e", " ">> \o DecimalDigits(k) \o <<".", " ">> \o title

\* body_width = [2] * sum(header_cols), then the longest text of each column
BodyWidth(header_cols, body) ==
  [i \in 1 .. SumSeq(header_cols) |->
     2 + (IF body = << >> THEN 0
          ELSE MaxSeq([r \in 1 .. Len(body) |-> Len(body[r][i])]))]

\* the loop over zip(header, header_cols) from its k-th turn on: i is the
\* first body column of the k-th header cell (from 1), bw the body widths
\* and hw the header widths so far
RECURSIVE HeaderLoop(_, _, _, _, _, _)
HeaderLoop(header, header_cols, k, i, bw, hw) ==
  IF k > Len(header) THEN [body_width |-> bw, header_width |-> hw]
  ELSE
    LET col == header_cols[k]
        h == Len(header[k]) + 2
        span == i .. i + col - 1
        b1 == IF col = 1 THEN bw[i]
              ELSE SumSeq([j \in 1 .. col |-> bw[i + j - 1]]) + col - 1
        \* the variable bw of the code after the two branches
        b2 == IF col # 1 /\ h > b1 THEN h - b1 ELSE b1
        q == b2 \div col
        r == b2 % col
        bw2 == IF h <= b1 THEN bw
               ELSE IF col = 1 THEN [bw EXCEPT ![i] = h]
               ELSE [j \in DOMAIN bw |->
                       IF j \in span
                       THEN bw[j] + q + (IF j < i + r THEN 1 ELSE 0)
                       ELSE bw[j]]
        h2 == IF h < b2 THEN b2 ELSE h
    IN  HeaderLoop(header, header_cols, k + 1, i + col, bw2, Append(hw, h2))

\* the part of q from the a-th to the b-th element
Slice(q, a, b) == [j \in 1 .. b - a + 1 |-> q[a + j - 1]]

\* split_border: the border between the header and the body
SplitBorder(header_cols, bw) ==
  LET first(k) == SumSeq(Slice(header_cols, 1, k - 1)) + 1
      part(k) == Join(<<"+">>, [j \in 1 .. header_cols[k] |->
                                  Rep("-", bw[first(k) + j - 1])])
  IN  Join(<<"+">>, [k \in 1 .. Len(header_cols) |-> part(k)])

\* _table(title, header, header_cols, body, notes) as the k-th table: the
\* lines of the string it returns
_table(k, title, header, header_cols, body, notes) ==
  LET ttl == TableTitle(k, title)
      w == HeaderLoop(header, header_cols, 1, 1,
                      BodyWidth(header_cols, body), << >>)
      hw == w.header_width
      bw == w.body_width
      natural == SumSeq(hw) + Len(hw) + 1
      other_width == MaxSeq(<<Len(ttl)>> \o [n \in DOMAIN notes |-> Len(notes[n])])
      wide == other_width > natural
      d == other_width - natural
      dl == IF wide THEN Rep(" ", d \div 2) ELSE << >>
      dr == IF wide THEN Rep(" ", d - d \div 2) ELSE << >>
      total_width == IF wide THEN other_width ELSE natural
      boxed(l, mid, rgt) == dl \o l \o mid \o rgt \o dr
      dashes(ws) == [j \in DOMAIN ws |-> Rep("-", ws[j])]
      cells(texts, ws) == [j \in DOMAIN ws |-> Center(texts[j], ws[j])]
  IN  << Center(ttl, total_width),
         boxed(<<"+">>, Join(<<"+">>, dashes(hw)), <<"+">>),
         boxed(<<"|">>, Join(<<"|">>, cells(header, hw)), <<"|">>),
         boxed(<<"+">>, SplitBorder(header_cols, bw), <<"+">>) >>
      \o [r \in DOMAIN body |->
            boxed(<<"|">>, Join(<<"|">>, cells(body[r], bw)), <<"|">>)]
      \o << boxed(<<"+">>, Join(<<"+">>, dashes(bw)), <<"+">>) >>
      \o [n \in DOMAIN notes |-> LeftAlign(notes[n], total_width)]

\* lengths of the header texts, with the number of body columns of the cell
HeaderInputs ==
  LET cell == [len : {0, 7, 11}, col : {1, 3}]
  IN  {<<c>> : c \in cell} \cup {<<c, e>> : c \in cell, e \in cell}

\* lengths of the title and of the notes (one or two notes)
TitleInputs == {0, 30}
NoteInputs == {<<0>>, <<45>>, <<3, 40>>}

\* the bodies for n columns: no row, one row of texts of 0 or 3 characters,
\* and such a row followed by a row of texts of 1 character
BodyInputs(n) ==
  LET rows == [1 .. n -> {Text(0), Text(3)}]
  IN  {<< >>} \cup {<<row>> : row \in rows}
        \cup {<<row, [i \in 1 .. n |-> Text(1)]>> : row \in rows}

\* the numbers of tables that the module has rendered before the call
TablesBefore == {0, 9}

\* _table is about to be called with texts of the lengths drawn here;
\* ncalls is the number of tables rendered so far, the value of
\* _TABLE_NUMBER less one
Table_Init ==
  /\ timer = << >>
  /\ timer_id = 0
  /\ stats = _DEFAULT_STATS
  /\ number = 0
  /\ stats_namedtuple = None
  /\ catch_interrupt = "absent"
  /\ cmp = NoCompare
  /\ ncalls \in TablesBefore
  /\ out = << >>
  /\ ret = [op |-> "_table", exc |-> "running"]
  /\ \E hd \in HeaderInputs, title \in TitleInputs, nt \in NoteInputs :
       LET header == [k \in DOMAIN hd |-> Text(hd[k].len)]
           header_cols == [k \in DOMAIN hd |-> hd[k].col]
           notes == [n \in DOMAIN nt |-> Text(nt[n])]
       IN  \E body \in BodyInputs(SumSeq(header_cols)) :
             run = [pc |-> "call", title |-> Text(title), header |-> header,
                    header_cols |-> header_cols, body |-> body,
                    notes |-> notes]

\* the call of _table
Table_call ==
  /\ run.pc = "call"
  /\ ncalls' = ncalls + 1
  /\ run' = [run EXCEPT !.pc = "table"]
  /\ out' = _table(ncalls + 1, run.title, run.header, run.header_cols,
                   run.body, run.notes)
  /\ ret' = Returned("_table")
  /\ UNCHANGED <<timer, timer_id, stats, number, stats_namedtuple,
                 catch_interrupt, cmp>>

Table_Next == Table_call

Table_Spec == Table_Init /\ [][Table_Next]_vars

\* the lengths of the runs of "-" of a border line, from left to right
RECURSIVE Runs(_, _)
Runs(line, n) ==
  IF line = << >> THEN (IF n > 0 THEN <<n>> ELSE << >>)
  ELSE IF Head(line) = "-" THEN Runs(Tail(line), n + 1)
  ELSE (IF n > 0 THEN <<n>> ELSE << >>) \o Runs(Tail(line), 0)

\* C25: in the table rendered by _table for a title, a header, header_cols
\* (each >= 1), a body and one or more notes, every line has the same
\* length, which is at least the length of the title and of every note; the
\* width of every header cell (top border) is the sum of the widths of the
\* body columns it spans (bottom border) plus one per boundary between
\* them; every body column is at least 2 wider than its longest text, and
\* under a header cell of one column at least 2 wider than the header text.
C25_TableLayout ==
  run.pc = "table" =>
    LET hws == Runs(out[2], 0)
        bws == Runs(out[Len(out) - Len(run.notes)], 0)
        first(k) == SumSeq(Slice(run.header_cols, 1, k - 1)) + 1
    IN  /\ Len(out) = 5 + Len(run.body) + Len(run.notes)
        /\ \A l \in DOMAIN out : Len(out[l]) = Len(out[1])
        /\ Len(out[1]) >= Len(TableTitle(ncalls, run.title))
        /\ \A n \in DOMAIN run.notes : Len(out[1]) >= Len(run.notes[n])
        /\ Len(hws) = Len(run.header)
        /\ Len(bws) = SumSeq(run.header_cols)
        /\ Runs(out[4], 0) = bws
        /\ \A k \in DOMAIN run.header :
             LET col == run.header_cols[k]
             IN  /\ hws[k] = SumSeq(Slice(bws, first(k), first(k) + col - 1))
                               + col - 1
                 /\ hws[k] >= Len(run.header[k]) + 2
                 /\ col = 1 => bws[first(k)] >= Len(run.header[k]) + 2
        /\ \A i \in DOMAIN bws, r \in DOMAIN run.body :
             bws[i] >= Len(run.body[r][i]) + 2

\* a table whose header cell of three columns is wider than its body
\* columns, and whose note is wider than the box
C25_Witness ==
  /\ run.pc = "table"
  /\ run.header_cols = <<1, 3>>
  /\ Len(run.header[2]) = 11
  /\ Len(run.body) = 2
  /\ Runs(out[2], 0) = <<5, 13>>
  /\ Runs(out[Len(out) - 1], 0) = <<5, 4, 4, 3>>
  /\ Len(run.notes[1]) = 45
  /\ Len(out[2]) = 45
  /\ Head(out[2]) = " "

====
